---------------------------- MODULE Spec2Model ----------------------------
(***************************************************************************)
(* State-machine model of the NAPLAN backend's response normalisation:     *)
(*   ai/text_cleaning.py, ai/naplan_scoring.py, ai/gemini_writing_eval.py  *)
(*   and subject_feedback/gemini_subject_feedback.py.                      *)
(*                                                                         *)
(* Text is a sequence of characters.  An ASCII character is the one-letter *)
(* string itself; a non-ASCII character is written by its code point, as   *)
(* "U+2022".  A float the code rounds to one decimal is held in tenths     *)
(* (20.0 is 200).  A JSON scalar is a record [k, s, n]: k is its kind,     *)
(* s its text when it is a string, n its value when it is a number.        *)
(***************************************************************************)
EXTENDS Integers, Sequences, FiniteSets, TLC

VARIABLES
    pc,          \* position of the call being modelled
    ai,          \* coerce_ai_feedback_schema: the model's feedback object
    analysis,    \* coerce_ai_feedback_schema: the performance analysis
    feedback,    \* coerce_ai_feedback_schema: the returned feedback
    crits,       \* normalize_criteria_list: the model's criteria value
    text_type,   \* normalize_criteria_list: "Narrative" or "Persuasive"
    criteria,    \* normalize_criteria_list: what the call produced
    review_sections,  \* ensure_review_sections_shape: data["review_sections"]
    shaped_once,      \* ensure_review_sections_shape: its value after the first call
    req,         \* evaluate_naplan_writing: its arguments and the environment
    ev,          \* evaluate_naplan_writing: its locals
    reply,       \* evaluate_naplan_writing: what the model call produced
    calls,       \* evaluate_naplan_writing: invocations of the model
    out,         \* evaluate_naplan_writing: what the call handed back
    payload,     \* main: stdin and the environment
    loc,         \* main: its locals
    model,       \* main: the generative model, its initialisations and replies
    gen,         \* generate_feedback: its frame
    stdout,      \* main: what it printed
    marks,       \* band_from_score: its arguments
    standard,    \* band_from_score: what it returned
    sub_subjects,  \* analyze_performance: student_data["sub_subjects"]
    performance    \* analyze_performance: what it returned

vars == <<pc, ai, analysis, feedback, crits, text_type, criteria,
          review_sections, shaped_once, req, ev, reply, calls, out,
          payload, loc, model, gen, stdout, marks, standard,
          sub_subjects, performance>>


-----------------------------------------------------------------------------
(* Bounds of the model *)

\* longest list the model's reply holds in one array field
MaxItems == 4

\* longest criteria list the model's reply holds
MaxCrits == 3

\* longest list of sections handed to ensure_review_sections_shape
MaxSections == 2

\* longest criteria or review_sections list of a reply to evaluate_naplan_writing
MaxReplyList == 1

\* most topics of a topicBreakdown drawn from the pool of topics
MaxTopics == 2

\* largest max_retries generate_feedback is called with
MaxRetries == 3

\* largest total and largest maximum band_from_score is called with
MaxBandScore == 60

\* longest list of topics analyze_performance is called with
MaxPerfTopics == 5

-----------------------------------------------------------------------------
(* Python string primitives *)

Min(S) == CHOOSE x \in S : \A y \in S : x <= y
Max(S) == CHOOSE x \in S : \A y \in S : x >= y

Take(s, n) == SubSeq(s, 1, Min({n, Len(s)}))

\* characters str.strip() and \s treat as whitespace
WS == {" ", "\n"}

UPPER == <<"A","B","C","D","E","F","G","H","I","J","K","L","M",
           "N","O","P","Q","R","S","T","U","V","W","X","Y","Z">>
LOWER == <<"a","b","c","d","e","f","g","h","i","j","k","l","m",
           "n","o","p","q","r","s","t","u","v","w","x","y","z">>

DIGITS == <<"0","1","2","3","4","5","6","7","8","9">>

\* str.lower()
lower(s) ==
    LET lc(c) == IF \E i \in 1..26 : UPPER[i] = c
                 THEN LOWER[CHOOSE i \in 1..26 : UPPER[i] = c]
                 ELSE c
    IN  IF s = <<>> THEN <<>> ELSE [i \in 1..Len(s) |-> lc(s[i])]

\* needle in hay
Contains(hay, needle) ==
    \/ needle = <<>>
    \/ \E i \in 1..(Len(hay) - Len(needle) + 1) :
          SubSeq(hay, i, i + Len(needle) - 1) = needle

\* str.strip()
strip(s) ==
    LET idx == {i \in 1..Len(s) : s[i] \notin WS}
    IN  IF idx = {} THEN <<>> ELSE SubSeq(s, Min(idx), Max(idx))

\* str(n) of an int
RECURSIVE str_int(_)
str_int(n) ==
    IF n < 0 THEN <<"-">> \o str_int(-n)
    ELSE IF n < 10 THEN <<DIGITS[n + 1]>>
    ELSE str_int(n \div 10) \o <<DIGITS[(n % 10) + 1]>>

\* str(x) of a float rounded to one decimal, x given in tenths
str_float1(t) ==
    IF t < 0 THEN <<"-">> \o str_int((-t) \div 10) \o <<".">> \o <<DIGITS[((-t) % 10) + 1]>>
    ELSE str_int(t \div 10) \o <<".">> \o <<DIGITS[(t % 10) + 1]>>

\* " ".join(list)
RECURSIVE join(_)
join(list) ==
    IF list = <<>> THEN <<>>
    ELSE IF Len(list) = 1 THEN list[1]
    ELSE list[1] \o <<" ">> \o join(Tail(list))

\* n copies of the character c
Rep(c, n) == [i \in 1..n |-> c]

-----------------------------------------------------------------------------
(* ai/text_cleaning.py *)

WEIRD_PUNCT == {"U+2022", "U+25CF", "U+25AA", "U+FE0E", "U+25C6", "U+25C7", "U+25A0",
                "U+25A1", "U+25B6", "U+25BA", "U+27A4", "U+2794", "U+2192"}

\* the characters outside \x00-\x7F that the inputs use
NON_ASCII == WEIRD_PUNCT \cup {"U+2019", "U+2018", "U+201C", "U+201D", "U+2013", "U+2014", "U+00E9"}

\* a position a substitution deletes
DROPPED == "<dropped>"

\* MULTI_DOT_RE.sub("...", t): a run of 3 or more dots becomes 3 dots
multi_dot(t) ==
    LET drop(i) == i > 3 /\ t[i] = "." /\ t[i-1] = "." /\ t[i-2] = "." /\ t[i-3] = "."
        mark(u) == SelectSeq(u, LAMBDA c : c # DROPPED)
    IN  IF t = <<>> THEN <<>>
        ELSE mark([i \in 1..Len(t) |-> IF drop(i) THEN DROPPED ELSE t[i]])

\* MULTI_SPACE_RE.sub(" ", t): a run of 2 or more whitespace becomes one space
multi_space(t) ==
    LET ws(i) == i >= 1 /\ i <= Len(t) /\ t[i] \in WS
        sub(i) == IF ~ws(i) THEN t[i]
                  ELSE IF ws(i-1) THEN DROPPED
                  ELSE IF ws(i+1) THEN " "
                  ELSE t[i]
        mark(u) == SelectSeq(u, LAMBDA c : c # DROPPED)
    IN  IF t = <<>> THEN <<>> ELSE mark([i \in 1..Len(t) |-> sub(i)])

\* sanitize_text up to the length cut (all of it when max_len is None)
clean_text(s) ==
    LET t0 == strip(s)
        q(c) == CASE c \in {"U+2019", "U+2018"} -> "'"
                  [] c \in {"U+201C", "U+201D"} -> "\""
                  [] c \in {"U+2013", "U+2014"} -> "-"
                  [] OTHER              -> c
        t1 == IF t0 = <<>> THEN <<>> ELSE [i \in 1..Len(t0) |-> q(t0[i])]
        t2 == SelectSeq(t1, LAMBDA c : c \notin WEIRD_PUNCT)
        t3 == SelectSeq(t2, LAMBDA c : c \notin NON_ASCII)
        t4 == multi_dot(t3)
    IN  strip(multi_space(t4))

\* the length cut of sanitize_text: at the last space of the first max_len
\* characters, then "..." appended
cut_text(t, max_len) ==
    IF Len(t) > max_len
    THEN LET cut    == SubSeq(t, 1, max_len)
             spaces == {i \in 1..Len(cut) : cut[i] = " "}
             head   == IF spaces # {} THEN strip(SubSeq(cut, 1, Max(spaces) - 1))
                       ELSE strip(cut)
         IN  strip(head \o <<".", ".", ".">>)
    ELSE t

sanitize_text(s, max_len) == cut_text(clean_text(s), max_len)

\* lines 38-39 with the cleaning left out
cleaned_for_checks_as_given(text) == text

cleaned_for_checks(text) == clean_text(text)

is_blank(text) == strip(text) = <<>>

\* len(t.split())
count_words(text) ==
    Cardinality({i \in 1..Len(text) :
                    text[i] \notin WS /\ (i = 1 \/ text[i-1] \in WS)})

-----------------------------------------------------------------------------
(* JSON values of the model's reply *)

JStr(s)  == [k |-> "str",  s |-> s,    n |-> 0]
JNum(n)  == [k |-> "num",  s |-> <<>>, n |-> n]
JNull    == [k |-> "null", s |-> <<>>, n |-> 0]

\* an array field: a list, another (non-list) value, or absent
JList(items) == [k |-> "list",    items |-> items]
JNotList     == [k |-> "notlist", items |-> <<>>]
JMissing     == [k |-> "missing", items |-> <<>>]

\* an optional float, in tenths
NoneNum   == [some |-> FALSE, v |-> 0]
SomeNum(v) == [some |-> TRUE, v |-> v]

-----------------------------------------------------------------------------
(* subject_feedback/gemini_subject_feedback.py: coerce_ai_feedback_schema *)

arr(x) == IF x.k = "list" THEN x.items ELSE <<>>

ensure_string(x) ==
    CASE x.k = "str" -> IF x.s # <<>> THEN strip(x.s) ELSE <<>>
      [] x.k = "num" -> IF x.n # 0 THEN str_int(x.n) ELSE <<>>
      [] OTHER       -> <<>>

\* [ensure_string(x) for x in arr(field) if ensure_string(x)][:3]
clean_strings(field) ==
    LET raw  == arr(field)
        strs == IF raw = <<>> THEN <<>>
                ELSE [i \in 1..Len(raw) |-> ensure_string(raw[i])]
    IN  Take(SelectSeq(strs, LAMBDA x : x # <<>>), 3)

\* "Ensure weakest topic is first weakness"
ensure_weakest_first_appending(weaknesses, weak_topics) ==
    IF weak_topics = <<>> THEN weaknesses
    ELSE LET name  == weak_topics[1].name
             first == name \o <<":"," ","l","o","w"," ","a","c","c","u","r","a","c","y">>
         IN  IF weaknesses = <<>> THEN <<first>>
             ELSE IF ~Contains(lower(weaknesses[1]), lower(name))
                  THEN weaknesses \o <<first>>
                  ELSE weaknesses

ensure_weakest_first(weaknesses, weak_topics) ==
    IF weak_topics = <<>> THEN weaknesses
    ELSE LET name  == weak_topics[1].name
             first == name \o <<":"," ","l","o","w"," ","a","c","c","u","r","a","c","y">>
         IN  IF weaknesses = <<>> THEN <<first>>
             ELSE IF ~Contains(lower(weaknesses[1]), lower(name))
                  THEN <<first>> \o weaknesses
                  ELSE weaknesses

\* "Fill weaknesses from weak topics"
fill_weaknesses(weaknesses, weak_topics) ==
    LET topics == Take(weak_topics, 3)
        W[i \in 0..Len(topics)] ==
            IF i = 0 THEN weaknesses
            ELSE LET w == W[i - 1]
                     t == topics[i]
                 IN  IF Len(w) >= 3 THEN w
                     ELSE IF ~Contains(lower(join(w)), lower(t.name))
                          THEN Append(w, t.name \o <<":"," ">> \o str_float1(t.percentage)
                                   \o <<"%"," ","a","c","c","u","r","a","c","y">>)
                          ELSE w
    IN  W[Len(topics)]

\* "Timing as weakness if slow"
timing_weakness(weaknesses, an) ==
    IF an.pace = "slow" /\ an.time_taken_minutes.some /\ an.seconds_per_question.some
    THEN LET tw == <<"T","o","o"," ","s","l","o","w",":"," ">>
                   \o str_float1(an.seconds_per_question.v)
                   \o <<"s"," ","p","e","r"," ","q","u","e","s","t","i","o","n">>
         IN  IF ~Contains(lower(join(weaknesses)), lower(tw))
             THEN IF Len(weaknesses) < 3 THEN Append(weaknesses, tw)
                  ELSE [weaknesses EXCEPT ![Len(weaknesses)] = tw]
             ELSE weaknesses
    ELSE weaknesses

\* "Ensure exactly 3 weaknesses"
RECURSIVE pad_weaknesses(_)
pad_weaknesses(weaknesses) ==
    IF Len(weaknesses) < 3
    THEN pad_weaknesses(Append(weaknesses,
            <<"N","e","e","d","s"," ","m","o","r","e"," ","p","r","a","c","t","i","c","e",
              " ","c","o","n","s","i","s","t","e","n","c","y">>))
    ELSE Take(weaknesses, 3)

coerce_weaknesses(a, an) ==
    LET w0 == clean_strings(a.weaknesses)
        w1 == ensure_weakest_first(w0, an.weak_topics)
        w2 == fill_weaknesses(w1, an.weak_topics)
        w3 == timing_weakness(w2, an)
    IN  pad_weaknesses(w3)

\* "COACH (3 items)", line 543 with a missing action let through
usable_coach_item_without_action(item) ==
    /\ item.isdict
    /\ ensure_string(item.insight) # <<>>
    /\ ensure_string(item.reason) # <<>>

\* lines 538-543: an entry of ai["coach"] is kept when it is an object whose
\* insight, reason and action are all non-empty once made strings
usable_coach_item(item) ==
    /\ item.isdict
    /\ ensure_string(item.insight) # <<>>
    /\ ensure_string(item.reason) # <<>>
    /\ ensure_string(item.action) # <<>>

\* line 578 writing to coach_items[0]
force_replace_first(coach_items, entry) == [coach_items EXCEPT ![1] = entry]

\* line 578: coach_items[-1] = entry
force_replace(coach_items, entry) == [coach_items EXCEPT ![Len(coach_items)] = entry]

\* lines 535-582.  The counts of a topic are whole numbers here, so int() of
\* them is the number itself.
coerce_coach(a, an) ==
    LET raw == arr(a.coach)
        entry(item) == [insight |-> ensure_string(item.insight),
                        reason |-> ensure_string(item.reason),
                        action |-> ensure_string(item.action)]
        entries(items) == IF items = <<>> THEN <<>>
                          ELSE [i \in 1..Len(items) |-> entry(items[i])]
        \* coach_items = coach_items[:3]
        coach_items == Take(entries(SelectSeq(raw, usable_coach_item)), 3)
        weak_topics == an.weak_topics
        mentions(it, name) == \/ Contains(lower(it.insight), lower(name))
                              \/ Contains(lower(it.reason), lower(name))
        weakest_mentioned_in_coach ==
            /\ weak_topics # <<>>
            /\ \E i \in 1..Len(coach_items) : mentions(coach_items[i], weak_topics[1].name)
        practice(topic) ==
            [insight |-> topic.name \o <<" ","n","e","e","d","s"," ","f","o","c","u","s","e","d"," ","p","r","a","c","t","i","c","e"," ","t","o"," ","i","m","p","r","o","v","e",".">>,
             reason |-> <<"Y","o","u"," ","m","i","s","s","e","d"," ">> \o str_int(topic.missed) \o <<" ","o","u","t"," ","o","f"," ">>
                        \o str_int(topic.total) \o <<" ","q","u","e","s","t","i","o","n","s"," ","h","e","r","e",".">>,
             action |-> <<"D","o"," ","1","0"," ">> \o topic.name \o <<" ","q","u","e","s","t","i","o","n","s"," ","i","n"," ","1","5"," ","m","i","n","u","t","e","s"," ","t","o","d","a","y",".">>]
        daily ==
            [insight |-> <<"S","m","a","l","l"," ","d","a","i","l","y"," ","p","r","a","c","t","i","c","e"," ","b","u","i","l","d","s"," ","s","t","r","o","n","g"," ","l","o","n","g","-","t","e","r","m"," ","s","k","i","l","l","s",".">>,
             reason |-> <<"R","e","p","e","a","t","i","n","g"," ","k","e","y"," ","p","a","t","t","e","r","n","s"," ","h","e","l","p","s"," ","y","o","u"," ","r","e","m","e","m","b","e","r"," ","f","a","s","t","e","r",".">>,
             action |-> <<"S","t","u","d","y"," ","f","o","r"," ","1","5"," ","m","i","n","u","t","e","s"," ","d","a","i","l","y"," ","a","n","d"," ","r","e","v","i","e","w"," ","m","i","s","t","a","k","e","s",".">>]
        opportunity(topic) ==
            [insight |-> topic.name \o <<" ","i","s"," ","t","h","e"," ","b","i","g","g","e","s","t"," ","i","m","p","r","o","v","e","m","e","n","t"," ","o","p","p","o","r","t","u","n","i","t","y",".">>,
             reason |-> <<"Y","o","u"," ","m","i","s","s","e","d"," ">> \o str_int(topic.missed) \o <<" ","o","u","t"," ","o","f"," ">>
                        \o str_int(topic.total) \o <<" ","q","u","e","s","t","i","o","n","s"," ","i","n"," ">> \o topic.name \o <<".">>,
             action |-> <<"P","r","a","c","t","i","c","e"," ","1","2"," ">> \o topic.name \o <<" ","q","u","e","s","t","i","o","n","s"," ","t","o","m","o","r","r","o","w"," ","(","2","0"," ","m","i","n","u","t","e","s",")",".">>]
        \* while len(coach_items) < 3: the slot idx takes weak_topics[idx]
        filled(items) ==
            [i \in 1..3 |-> IF i <= Len(items) THEN items[i]
                            ELSE IF i <= Len(weak_topics) THEN practice(weak_topics[i])
                            ELSE daily]
        forced(items) == force_replace(items, opportunity(weak_topics[1]))
    IN  IF weak_topics # <<>> /\ ~weakest_mentioned_in_coach
        THEN forced(filled(coach_items))
        ELSE filled(coach_items)

\* "Ensure weakest topic is first growth area", the synthesized entry put last
growth_weakest_first_appending(growth_areas, weak_topics) ==
    IF weak_topics = <<>> THEN growth_areas
    ELSE LET name == weak_topics[1].name
             must_first == name \o <<":"," ","p","r","a","c","t","i","c","e"," ","d","a","i","l","y">>
         IN  IF growth_areas = <<>> THEN <<must_first>>
             ELSE IF ~Contains(lower(growth_areas[1]), lower(name))
                  THEN growth_areas \o <<must_first>>
                  ELSE growth_areas

\* lines 637-644: "Ensure weakest topic is first growth area"
growth_weakest_first(growth_areas, weak_topics) ==
    IF weak_topics = <<>> THEN growth_areas
    ELSE LET name == weak_topics[1].name
             must_first == name \o <<":"," ","p","r","a","c","t","i","c","e"," ","d","a","i","l","y">>
         IN  IF growth_areas = <<>> THEN <<must_first>>
             ELSE IF ~Contains(lower(growth_areas[1]), lower(name))
                  THEN <<must_first>> \o growth_areas
                  ELSE growth_areas

\* lines 634-655
coerce_growth_areas(a, an) ==
    LET topics == Take(an.weak_topics, 3)
        \* "Fill growth_areas from weak topics"
        fill(g0) ==
            LET G[i \in 0..Len(topics)] ==
                    IF i = 0 THEN g0
                    ELSE LET g == G[i - 1]
                             t == topics[i]
                         IN  IF Len(g) >= 3 THEN g
                             ELSE IF ~Contains(lower(join(g)), lower(t.name))
                                  THEN Append(g, t.name \o <<":"," ","i","m","p","r","o","v","e"," ","b","y"," ","r","e","v","i","s","i","n","g"," ","m","i","s","t","a","k","e","s">>)
                                  ELSE g
            IN  G[Len(topics)]
        \* while len(growth_areas) < 3, then growth_areas[:3]
        pad(g) == Take(g \o [i \in 1..(3 - Min({3, Len(g)})) |->
                                <<"I","m","p","r","o","v","e"," ","a","c","c","u","r","a","c","y"," ","b","y"," ","c","h","e","c","k","i","n","g"," ","a","n","s","w","e","r","s">>], 3)
    IN  pad(fill(growth_weakest_first(clean_strings(a.growth_areas), an.weak_topics)))

\* ai = ai if isinstance(ai, dict) else {}
as_dict(a) ==
    IF a.isdict THEN a
    ELSE [isdict |-> TRUE, overall_feedback |-> JNull, coach |-> JMissing, weaknesses |-> JMissing,
          growth_areas |-> JMissing]

\* lines 667-675 without the timing clause
coerce_overall_feedback_as_given(a, an) ==
    IF ensure_string(a.overall_feedback) # <<>> THEN ensure_string(a.overall_feedback)
    ELSE <<"Y","o","u"," ","m","a","d","e"," ","g","o","o","d"," ","p","r","o","g","r","e","s","s"," ","a","n","d"," ","c","a","n"," ","i","m","p","r","o","v","e"," ","w","i","t","h"," ","p","r","a","c","t","i","c","e","."," ","K","e","e","p"," ","g","o","i","n","g","!">>

\* lines 667-675, "OVERALL FEEDBACK (must mention timing)"
coerce_overall_feedback(a, an) ==
    LET given == ensure_string(a.overall_feedback)
        overall_feedback ==
            IF given # <<>> THEN given
            ELSE <<"Y","o","u"," ","m","a","d","e"," ","g","o","o","d"," ","p","r","o","g","r","e","s","s"," ","a","n","d"," ","c","a","n"," ","i","m","p","r","o","v","e"," ","w","i","t","h"," ","p","r","a","c","t","i","c","e","."," ","K","e","e","p"," ","g","o","i","n","g","!">>
    IN  IF /\ an.time_taken_minutes.some
           /\ ~Contains(lower(overall_feedback), <<"m","i","n","u","t","e">>)
           /\ ~Contains(lower(overall_feedback), <<"t","i","m","e">>)
        THEN overall_feedback \o <<" ","T","i","m","e"," ","t","a","k","e","n",":"," ">> \o str_float1(an.time_taken_minutes.v)
             \o <<" ","m","i","n","u","t","e","s",".">>
        ELSE overall_feedback

\* the overall_feedback, coach, weaknesses and growth_areas of the returned
\* object
coerce_ai_feedback_schema(a, an) ==
    [overall_feedback |-> coerce_overall_feedback(as_dict(a), an),
     coach |-> coerce_coach(as_dict(a), an),
     weaknesses |-> coerce_weaknesses(as_dict(a), an),
     growth_areas |-> coerce_growth_areas(as_dict(a), an)]

-----------------------------------------------------------------------------
(* ai/naplan_scoring.py: the rubric and normalize_criteria_list *)

MAX_SCORES ==
    << [name |-> <<"A","u","d","i","e","n","c","e">>, max |-> 6],
       [name |-> <<"T","e","x","t"," ","S","t","r","u","c","t","u","r","e">>, max |-> 6],
       [name |-> <<"I","d","e","a","s">>, max |-> 6],
       [name |-> <<"P","e","r","s","u","a","s","i","v","e"," ","D","e","v","i","c","e","s">>, max |-> 5],
       [name |-> <<"V","o","c","a","b","u","l","a","r","y">>, max |-> 6],
       [name |-> <<"C","o","h","e","s","i","o","n">>, max |-> 5],
       [name |-> <<"P","a","r","a","g","r","a","p","h","i","n","g">>, max |-> 4],
       [name |-> <<"S","e","n","t","e","n","c","e"," ","S","t","r","u","c","t","u","r","e">>, max |-> 6],
       [name |-> <<"P","u","n","c","t","u","a","t","i","o","n">>, max |-> 5],
       [name |-> <<"S","p","e","l","l","i","n","g">>, max |-> 6] >>

PERSUASIVE_DEVICES == <<"P","e","r","s","u","a","s","i","v","e"," ","D","e","v","i","c","e","s">>

NA_NARRATIVE == <<"N","/","A"," ","(","n","a","r","r","a","t","i","v","e",")">>

DEFAULT_SUGGESTION ==
    <<"A","d","d"," ","m","o","r","e"," ","d","e","t","a","i","l"," ","a","n","d"," ",
      "c","h","e","c","k"," ","t","h","i","s"," ","a","r","e","a"," ","n","e","x","t"," ",
      "t","i","m","e",".">>

\* the rubric of a text type, in dict order; a max of None is NoneNum
build_schema_max_keeping_devices(tt) ==
    [i \in 1..Len(MAX_SCORES) |->
        [name |-> MAX_SCORES[i].name, max |-> SomeNum(MAX_SCORES[i].max)]]

build_schema_max(tt) ==
    [i \in 1..Len(MAX_SCORES) |->
        [name |-> MAX_SCORES[i].name,
         max  |-> IF tt = "Narrative" /\ MAX_SCORES[i].name = PERSUASIVE_DEVICES
                  THEN NoneNum ELSE SomeNum(MAX_SCORES[i].max)]]

\* sum(v for v in applicable_max.values() if isinstance(v, int))
RECURSIVE sum_int_max(_)
sum_int_max(applicable_max) ==
    IF applicable_max = <<>> THEN 0
    ELSE (IF applicable_max[1].max.some THEN applicable_max[1].max.v ELSE 0)
         + sum_int_max(Tail(applicable_max))

\* x or ""
or_empty(x) ==
    IF (x.k = "str" /\ x.s = <<>>) \/ (x.k = "num" /\ x.n = 0) \/ x.k = "null"
    THEN JStr(<<>>) ELSE x

\* (s or "").strip() raises AttributeError on a truthy value that is no string
not_text(x) == x.k = "num" /\ x.n # 0

canonicalize_criterion_name(name, applicable_max) ==
    LET hit(raw, key) ==
            LET hits == {i \in 1..Len(applicable_max) : lower(applicable_max[i].name) = key}
            IN  IF raw = <<>> THEN <<>>
                ELSE IF hits # {} THEN applicable_max[Max(hits)].name
                ELSE raw
        canon(raw) == hit(raw, lower(raw))
    IN  canon(sanitize_text(or_empty(name).s, 40))

clamp_int(x, lo, hi) == Max({lo, Min({hi, x})})

\* c.get("max") when it is an int, None otherwise
int_of(x) == IF x.k = "num" THEN SomeNum(x.n) ELSE NoneNum

\* lines 257-259 with the test left out: no name counts as seen
seen_before_never(key, seen) == FALSE

\* lines 257-259: if key in seen: continue
seen_before(key, seen) == key \in seen

\* one pass of the loop over the supplied entries
normalize_entry(acc, c, applicable_max, tt) ==
    LET \* the body of the loop once the name is canonical and not yet seen
        append(name, key, mx, sugg, evq, sc) ==
            IF tt = "Narrative" /\ name = PERSUASIVE_DEVICES
            THEN IF not_text(sugg) THEN [acc EXCEPT !.raised = TRUE]
                 ELSE [acc EXCEPT !.seen = @ \cup {key},
                         !.normalized = Append(@,
                            [name |-> PERSUASIVE_DEVICES, score |-> NoneNum, max |-> NoneNum,
                             suggestion |-> sanitize_text(IF sugg.s = <<>> THEN NA_NARRATIVE
                                                          ELSE sugg.s, 220),
                             evidence_quote |-> <<>>])]
            ELSE IF not_text(sugg) \/ not_text(evq) THEN [acc EXCEPT !.raised = TRUE]
            ELSE [acc EXCEPT !.seen = @ \cup {key},
                    !.total_raw = IF mx.some THEN @ + clamp_int(sc, 0, mx.v) ELSE @,
                    !.normalized = Append(@,
                        [name |-> name,
                         score |-> SomeNum(IF mx.some THEN clamp_int(sc, 0, mx.v) ELSE sc),
                         max |-> SomeNum(IF mx.some THEN mx.v ELSE 0),
                         suggestion |-> IF strip(sugg.s) # <<>> THEN sanitize_text(sugg.s, 220)
                                        ELSE DEFAULT_SUGGESTION,
                         evidence_quote |-> IF strip(evq.s) # <<>> THEN sanitize_text(evq.s, 220)
                                            ELSE <<>>])]
        \* mx = applicable_max.get(name, c.get("max"))
        lookup(name, known) ==
            IF name = <<>> \/ seen_before(lower(name), acc.seen) THEN acc
            ELSE append(name, lower(name),
                        IF known # {} THEN applicable_max[Max(known)].max ELSE int_of(c.max),
                        or_empty(c.suggestion), or_empty(c.evidence_quote),
                        IF c.score.k = "num" THEN c.score.n ELSE 0)
        named(name) ==
            lookup(name, {i \in 1..Len(applicable_max) : applicable_max[i].name = name})
    IN  IF acc.raised \/ ~c.isdict THEN acc
        ELSE IF not_text(c.name) THEN [acc EXCEPT !.raised = TRUE]
        ELSE named(canonicalize_criterion_name(c.name, applicable_max))

\* the entry synthesized for a rubric name the model left out
missing_entry(r, tt) ==
    IF tt = "Narrative" /\ r.name = PERSUASIVE_DEVICES
    THEN [name |-> PERSUASIVE_DEVICES, score |-> NoneNum, max |-> NoneNum,
          suggestion |-> NA_NARRATIVE, evidence_quote |-> <<>>]
    ELSE [name |-> r.name, score |-> SomeNum(0),
          max |-> IF r.max.some THEN r.max ELSE SomeNum(0),
          suggestion |-> DEFAULT_SUGGESTION, evidence_quote |-> <<>>]

normalize_criteria_list(cs, applicable_max, tt) ==
    LET L[i \in 0..Len(arr(cs))] ==
            IF i = 0 THEN [raised |-> FALSE, normalized |-> <<>>, seen |-> {}, total_raw |-> 0]
            ELSE normalize_entry(L[i-1], arr(cs)[i], applicable_max, tt)
        \* the rubric entries appended after the supplied ones
        fill(absent) ==
            IF absent = <<>> THEN <<>>
            ELSE [i \in 1..Len(absent) |-> missing_entry(absent[i], tt)]
        missing(normalized, existing) ==
            normalized \o fill(SelectSeq(applicable_max, LAMBDA r : r.name \notin existing))
        finish(supplied) ==
            IF supplied.raised
            THEN [raised |-> TRUE, normalized |-> <<>>, total_raw |-> 0]
            ELSE [raised |-> FALSE,
                  normalized |-> missing(supplied.normalized,
                      {supplied.normalized[i].name : i \in 1..Len(supplied.normalized)}),
                  total_raw |-> supplied.total_raw]
    IN  finish(L[Len(arr(cs))])

-----------------------------------------------------------------------------
(* ai/naplan_scoring.py: ensure_review_sections_shape *)

\* ensure_review_sections_shape: the fixed ids, their default titles and the
\* caps on the number of items
SECTIONS ==
    << [id |-> <<"s","e","n","t","e","n","c","e","_","i","m","p","r","o","v","e","m","e","n","t","s">>, title |-> <<"M","a","k","e"," ","t","h","e","s","e"," ","s","e","n","t","e","n","c","e","s"," ","s","t","r","o","n","g","e","r">>, max_items |-> 8],
       [id |-> <<"i","d","e","a","s","_","d","e","v","e","l","o","p","m","e","n","t">>, title |-> <<"I","d","e","a","s"," ","d","e","v","e","l","o","p","m","e","n","t"," ","s","u","g","g","e","s","t","i","o","n","s">>, max_items |-> 6],
       [id |-> <<"n","e","x","t","_","s","t","e","p","s">>, title |-> <<"N","e","x","t"," ","t","i","m","e"," ","t","r","y"," ","t","h","i","s">>, max_items |-> 8],
       [id |-> <<"m","i","n","i","_","r","e","w","r","i","t","e">>, title |-> <<"M","i","n","i"," ","r","e","w","r","i","t","e"," ","(","e","x","a","m","p","l","e",")">>, max_items |-> 4] >>

\* a section object of review_sections; an item of its list is a string, an
\* object of one key (v its value) or anything else
Sec(id, title, items) == [isdict |-> TRUE, id |-> id, title |-> title, items |-> items]

\* get_section: the last section of the list carrying the id, or a fresh one;
\* the title replaced when not a string, then sanitized to 80 characters
get_section(sections, sec_id, title) ==
    LET at == {i \in 1..Len(sections) :
                  sections[i].isdict /\ sections[i].id.k = "str" /\ sections[i].id.s = sec_id}
        shape(s) == Sec(JStr(sec_id),
                        JStr(sanitize_text(IF s.title.k = "str" THEN s.title.s ELSE title, 80)),
                        JList(arr(s.items)))
    IN  shape(IF at = {} THEN Sec(JStr(sec_id), JStr(title), JList(<<>>))
              ELSE sections[Max(at)])

sanitize_items_uncapped(items, max_items) ==
    LET clean(it) == IF it.k = "str" THEN [it EXCEPT !.v = JStr(sanitize_text(it.v.s, 200))]
                     ELSE IF it.k = "dict" /\ it.v.k = "str"
                     THEN [it EXCEPT !.v = JStr(sanitize_text(it.v.s, 260))]
                     ELSE it
        keep(l) == SelectSeq(l, LAMBDA it : it.k \in {"str", "dict"})
        each(l) == IF l = <<>> THEN <<>> ELSE [i \in 1..Len(l) |-> clean(l[i])]
    IN  each(keep(items))

\* sanitize_items: the first max_items items, strings cut to 200 characters,
\* string values of objects to 260, items of any other type left out
sanitize_items(items, max_items) ==
    LET clean(it) == IF it.k = "str" THEN [it EXCEPT !.v = JStr(sanitize_text(it.v.s, 200))]
                     ELSE IF it.k = "dict" /\ it.v.k = "str"
                     THEN [it EXCEPT !.v = JStr(sanitize_text(it.v.s, 260))]
                     ELSE it
        keep(l) == SelectSeq(l, LAMBDA it : it.k \in {"str", "dict"})
        each(l) == IF l = <<>> THEN <<>> ELSE [i \in 1..Len(l) |-> clean(l[i])]
    IN  each(keep(Take(items, max_items)))

\* ensure_review_sections_shape, as the review_sections it leaves in data
\* when it finds rs there
ensure_review_sections_shape(rs) ==
    LET one(sec, S) == [sec EXCEPT !.items = JList(sanitize_items(sec.items.items, S.max_items))]
        section(sections, S) == one(get_section(sections, S.id, S.title), S)
        all(sections) == [i \in 1..Len(SECTIONS) |-> section(sections, SECTIONS[i])]
    IN  JList(all(arr(rs)))

-----------------------------------------------------------------------------
(* ai/naplan_scoring.py and ai/gemini_writing_eval.py: evaluate_naplan_writing *)

MIN_AI_WORDS == 20

\* a key the object does not hold
JAbsent == [k |-> "absent", s |-> <<>>, n |-> 0]

PERSUASIVE_SIGNALS ==
    << <<"c","o","n","v","i","n","c","e">>,
       <<"p","e","r","s","u","a","d","e">>,
       <<"s","h","o","u","l","d">>,
       <<"m","u","s","t">>,
       <<"b","e","c","a","u","s","e">>,
       <<"i"," ","t","h","i","n","k">>,
       <<"i"," ","b","e","l","i","e","v","e">>,
       <<"d","e","a","r">>,
       <<"f","i","r","s","t">>,
       <<"s","e","c","o","n","d">>,
       <<"t","h","e","r","e","f","o","r","e">>,
       <<"i","n"," ","c","o","n","c","l","u","s","i","o","n">>,
       <<"p","l","e","a","s","e">> >>

NARRATIVE_SIGNALS ==
    << <<"o","n","e"," ","d","a","y">>,
       <<"o","n","c","e">>,
       <<"t","h","e","n">>,
       <<"s","u","d","d","e","n","l","y">>,
       <<"a","f","t","e","r"," ","t","h","a","t">>,
       <<"t","h","e"," ","e","n","d">>,
       <<"s","t","o","r","y">>,
       <<"w","e","n","t">>,
       <<"f","o","u","n","d">> >>

guess_text_type(writing_prompt, student_writing) ==
    LET hits(text, signals) ==
            Cardinality({i \in 1..Len(signals) : Contains(text, signals[i])})
        pick(text) == IF hits(text, PERSUASIVE_SIGNALS) > hits(text, NARRATIVE_SIGNALS)
                      THEN "Persuasive" ELSE "Narrative"
    IN  pick(lower(writing_prompt \o <<"\n">> \o student_writing))

\* WORD_RANGES.get(year_level, WORD_RANGES[3])
WORD_RANGES(year_level) ==
    CASE year_level = 5 -> [min |-> 180, max |-> 300, strong_max |-> 350]
      [] year_level = 7 -> [min |-> 300, max |-> 500, strong_max |-> 600]
      [] year_level = 9 -> [min |-> 450, max |-> 700, strong_max |-> 700]
      [] OTHER          -> [min |-> 80,  max |-> 150, strong_max |-> 200]

\* meta.word_count_feedback before any is computed
NoWcf == [present |-> FALSE, word_count |-> 0, year_level |-> 0, status |-> "",
          message |-> <<>>, suggestion |-> <<>>]

generate_word_count_feedback(year_level, word_count) ==
    LET wc == <<"W","o","r","d"," ","c","o","u","n","t"," ","(">> \o str_int(word_count)
        yr == str_int(year_level)
        target(r) == str_int(r.min) \o <<"-">> \o str_int(r.max) \o <<" ","w","o","r","d","s">>
        fb(status, message, suggestion) ==
            [present |-> TRUE, word_count |-> word_count, year_level |-> year_level,
             status |-> status, message |-> message, suggestion |-> suggestion]
        of(r) ==
            IF word_count < r.min
            THEN fb("below_minimum", wc \o <<")"," ","i","s"," ","b","e","l","o","w"," ","t","h","e"," ","e","x","p","e","c","t","e","d"," ","m","i","n","i","m","u","m"," ","f","o","r"," ","Y","e","a","r"," ">> \o yr \o <<".">>,
                    <<"A","i","m"," ","f","o","r"," ">> \o target(r) \o <<"."," ","A","d","d"," ","m","o","r","e"," ","d","e","t","a","i","l"," ","a","n","d"," ","e","x","a","m","p","l","e","s"," ","t","o"," ","r","e","a","c","h"," ","t","h","e"," ","t","a","r","g","e","t",".">>)
            ELSE IF word_count > r.strong_max
            THEN fb("above_maximum", wc \o <<")"," ","e","x","c","e","e","d","s"," ","t","h","e"," ","r","e","c","o","m","m","e","n","d","e","d"," ","m","a","x","i","m","u","m"," ","f","o","r"," ","Y","e","a","r"," ">> \o yr \o <<".">>,
                    <<"T","r","y"," ","t","o"," ","b","e"," ","m","o","r","e"," ","c","o","n","c","i","s","e","."," ","T","a","r","g","e","t"," ">> \o target(r) \o <<" ","b","y"," ","c","o","m","b","i","n","i","n","g"," ","i","d","e","a","s"," ","a","n","d"," ","r","e","m","o","v","i","n","g"," ","r","e","p","e","t","i","t","i","o","n",".">>)
            ELSE IF word_count < r.max
            THEN fb("below_recommended", wc \o <<")"," ","i","s"," ","w","i","t","h","i","n"," ","r","a","n","g","e"," ","b","u","t"," ","c","o","u","l","d"," ","b","e"," ","d","e","v","e","l","o","p","e","d"," ","f","u","r","t","h","e","r",".">>,
                    <<"C","o","n","s","i","d","e","r"," ","a","d","d","i","n","g"," ","m","o","r","e"," ","d","e","t","a","i","l"," ","t","o"," ","r","e","a","c","h"," ">> \o target(r) \o <<".">>)
            ELSE fb("within_range", wc \o <<")"," ","i","s"," ","w","i","t","h","i","n"," ","t","h","e"," ","e","x","p","e","c","t","e","d"," ","r","a","n","g","e"," ","f","o","r"," ","Y","e","a","r"," ">> \o yr \o <<".">>, <<"G","o","o","d"," ","l","e","n","g","t","h"," ","f","o","r"," ","t","h","i","s"," ","y","e","a","r"," ","l","e","v","e","l",".">>)
    IN  of(WORD_RANGES(year_level))

BANDS ==
    << <<"B","e","l","o","w"," ","M","i","n","i","m","u","m"," ","S","t","a","n","d","a","r","d">>,
       <<"A","t"," ","M","i","n","i","m","u","m"," ","S","t","a","n","d","a","r","d">>,
       <<"A","b","o","v","e"," ","M","i","n","i","m","u","m"," ","S","t","a","n","d","a","r","d">> >>

\* lines 119-127, the comparison widened at 35: exactly 35% is still Below
band_from_score_above_35(total, max_score) ==
    IF max_score <= 0 \/ 100 * total <= 35 * max_score THEN BANDS[1]
    ELSE IF 100 * total < 65 * max_score THEN BANDS[2]
    ELSE BANDS[3]

\* pct = (total / max_score) * 100.0 is compared with 35 and with 65.  The
\* comparisons are written on the whole numbers, pct < 35 as
\* 100 * total < 35 * max_score: the float pct falls on the same side of 35
\* and of 65 as the exact quotient for the totals and maxima of the model.
band_from_score(total, max_score) ==
    IF max_score <= 0 \/ 100 * total < 35 * max_score THEN BANDS[1]
    ELSE IF 100 * total < 65 * max_score THEN BANDS[2]
    ELSE BANDS[3]

\* a prompt_relevance object
PR(score, verdict, note, evidence) ==
    [k |-> "dict", has_verdict |-> TRUE, score |-> score, verdict |-> verdict,
     note |-> note, evidence |-> evidence]

base_output_shape(student_year, tt, max_total) ==
    [meta |-> [year_level |-> student_year, text_type |-> tt, valid_response |-> FALSE,
               message |-> JAbsent, error_detail |-> JAbsent,
               word_count_feedback |-> NoWcf,
               prompt_relevance |-> PR(JNum(0), JStr(<<"o","f","f","_","t","o","p","i","c">>), JStr(<<>>), JStr(<<>>))],
     overall |-> [total_score |-> 0, max_score |-> max_total, band |-> BANDS[1],
                  one_line_summary |-> <<>>, summary |-> <<>>,
                  strengths |-> <<>>, weaknesses |-> <<>>],
     review_sections |-> ensure_review_sections_shape(JList(<<>>)),
     criteria |-> <<>>]

\* the model's reply: the invocation raises, or the text it returns is empty,
\* holds no object, holds a malformed one, or parses to data
call_full_model(r) ==
    LET raise(exc, msg) == [exc |-> exc, msg |-> msg, data |-> r.data]
    IN  IF r.raises THEN raise("Exception", r.error)
        ELSE CASE r.text = "empty"     -> raise("ValueError", <<"E","m","p","t","y"," ","m","o","d","e","l"," ","r","e","s","p","o","n","s","e",".">>)
               [] r.text = "no_object" -> raise("ValueError", <<"N","o"," ","J","S","O","N"," ","o","b","j","e","c","t"," ","f","o","u","n","d"," ","i","n"," ","m","o","d","e","l"," ","r","e","s","p","o","n","s","e",".">>)
               [] r.text = "malformed" -> raise("JSONDecodeError", <<"E","x","p","e","c","t","i","n","g"," ","p","r","o","p","e","r","t","y"," ","n","a","m","e"," ","e","n","c","l","o","s","e","d"," ","i","n"," ","d","o","u","b","l","e"," ","q","u","o","t","e","s",":"," ","l","i","n","e"," ","1"," ","c","o","l","u","m","n"," ","2"," ","(","c","h","a","r"," ","1",")">>)
               [] OTHER                    -> raise("none", <<>>)

GOOD_EFFORT == <<"G","o","o","d"," ","e","f","f","o","r","t","."," ","K","e","e","p"," ","p","r","a","c","t","i","s","i","n","g"," ","a","n","d"," ","a","d","d"," ","m","o","r","e"," ","d","e","t","a","i","l"," ","n","e","x","t"," ","t","i","m","e",".">>

\* the overall object of the NORMALIZE result
normalize_overall(overall, total_final, max_total) ==
    LET band(b) == IF \E i \in 1..Len(BANDS) : BANDS[i] = b THEN b
                   ELSE band_from_score(total_final, max_total)
        text(x, cap) == sanitize_text(IF x.k = "str" /\ strip(x.s) # <<>> THEN x.s
                                      ELSE GOOD_EFFORT, cap)
        kept(l)  == SelectSeq(Take(l, 4), LAMBDA x : x.k = "str" /\ strip(x.s) # <<>>)
        each(l)  == IF l = <<>> THEN <<>> ELSE [i \in 1..Len(l) |-> sanitize_text(l[i].s, 120)]
    IN  [total_score |-> total_final, max_score |-> max_total,
         band |-> band(sanitize_text(IF or_empty(overall.band) = <<>>
                                     THEN band_from_score(total_final, max_total)
                                     ELSE overall.band.s, 32)),
         one_line_summary |-> text(overall.one_line_summary, 140),
         summary |-> text(overall.summary, 260),
         strengths |-> each(kept(arr(overall.strengths))),
         weaknesses |-> each(kept(arr(overall.weaknesses)))]

\* lines 270-341: the reply made into the NORMALIZE result, or the exception
\* raised on the way
normalize_reply(called, student_year, tt, wcf, max_total) ==
    LET raise(exc, msg) == [exc |-> exc, msg |-> msg,
                            result |-> base_output_shape(student_year, tt, max_total)]
        relevance(meta) == IF meta.k = "dict" /\ meta.prompt_relevance.k = "dict"
                              /\ meta.prompt_relevance.has_verdict
                           THEN meta.prompt_relevance
                           ELSE PR(JNum(100), JStr(<<"o","n","_","t","o","p","i","c">>), JStr(<<>>), JStr(<<>>))
        result(data, cr) ==
            [meta |-> [year_level |-> student_year, text_type |-> tt,
                       valid_response |-> TRUE, message |-> JAbsent,
                       error_detail |-> JAbsent, word_count_feedback |-> wcf,
                       prompt_relevance |-> relevance(data.meta)],
             overall |-> normalize_overall(data.overall, cr.total_raw, max_total),
             review_sections |-> ensure_review_sections_shape(data.review_sections),
             criteria |-> cr.normalized]
        scored(data, cr) ==
            IF cr.raised THEN raise("AttributeError", <<"'","i","n","t","'"," ","o","b","j","e","c","t"," ","h","a","s"," ","n","o"," ","a","t","t","r","i","b","u","t","e"," ","'","s","t","r","i","p","'">>)
            ELSE IF data.overall.k = "other" THEN raise("TypeError", <<"'","N","o","n","e","T","y","p","e","'"," ","o","b","j","e","c","t"," ","d","o","e","s"," ","n","o","t"," ","s","u","p","p","o","r","t"," ","i","t","e","m"," ","a","s","s","i","g","n","m","e","n","t">>)
            ELSE IF not_text(data.overall.band) THEN raise("AttributeError", <<"'","i","n","t","'"," ","o","b","j","e","c","t"," ","h","a","s"," ","n","o"," ","a","t","t","r","i","b","u","t","e"," ","'","s","t","r","i","p","'">>)
            ELSE [exc |-> "none", msg |-> <<>>, result |-> result(data, cr)]
        shaped(data) ==
            IF data.k # "dict" THEN raise("ValueError", <<"M","o","d","e","l"," ","r","e","t","u","r","n","e","d"," ","n","o","n","-","d","i","c","t"," ","J","S","O","N",".">>)
            ELSE IF data.meta.k = "other" THEN raise("TypeError", <<"'","N","o","n","e","T","y","p","e","'"," ","o","b","j","e","c","t"," ","d","o","e","s"," ","n","o","t"," ","s","u","p","p","o","r","t"," ","i","t","e","m"," ","a","s","s","i","g","n","m","e","n","t">>)
            ELSE scored(data, normalize_criteria_list(data.criteria, build_schema_max(tt), tt))
    IN  IF called.exc # "none" THEN raise(called.exc, called.msg)
        ELSE shaped(called.data)

\* the exceptions the handler of line 343 catches
caught_value_errors_only(exc) == exc \in {"ValueError", "JSONDecodeError"}

caught(exc) == exc \in {"Exception", "ValueError", "JSONDecodeError", "TypeError", "AttributeError"}

\* lines 343-357: the MODEL_FAILED result
model_failed(student_year, tt, wcf, max_total, msg) ==
    LET fill(o) ==
            [o EXCEPT !.meta.word_count_feedback = wcf,
                        !.meta.message = JStr(<<"A","I"," ","e","v","a","l","u","a","t","i","o","n"," ","f","a","i","l","e","d",".">>),
                        !.meta.error_detail = JStr(sanitize_text(msg, 260)),
                        !.overall.summary = <<"P","r","o","m","p","t"," ","r","e","l","e","v","a","n","c","e"," ","w","a","s"," ","c","h","e","c","k","e","d",","," ","b","u","t"," ","f","u","l","l"," ","a","s","s","e","s","s","m","e","n","t"," ","f","a","i","l","e","d",".">>]
    IN  fill(base_output_shape(student_year, tt, max_total))

\* lines 222-233: the BLANK result
blank_result(student_year, tt, max_total) ==
    LET fill(o) ==
            [o EXCEPT !.meta.prompt_relevance =
                            PR(JNum(0), JStr(<<"o","f","f","_","t","o","p","i","c">>), JStr(<<"N","o"," ","s","t","u","d","e","n","t"," ","w","r","i","t","i","n","g"," ","p","r","o","v","i","d","e","d",".">>), JStr(<<>>)),
                        !.overall.summary = <<"N","o"," ","w","r","i","t","i","n","g"," ","w","a","s"," ","p","r","o","v","i","d","e","d"," ","f","o","r"," ","a","s","s","e","s","s","m","e","n","t",".">>]
    IN  fill(base_output_shape(student_year, tt, max_total))

too_short_below_ten(wc) == wc < 10

too_short(wc) == wc < MIN_AI_WORDS

\* lines 244-266: the TOO_SHORT result
too_short_result(student_year, tt, max_total, wc) ==
    LET fill(o) ==
            [o EXCEPT !.meta.message =
                            JStr(<<"T","e","x","t"," ","l","e","n","g","t","h"," ","i","s"," ","n","o","t"," ","e","n","o","u","g","h"," ","t","o"," ","a","s","s","e","s","s","."," ","P","l","e","a","s","e"," ","w","r","i","t","e"," ","a","t"," ","l","e","a","s","t"," ">> \o str_int(MIN_AI_WORDS) \o <<" ","w","o","r","d","s"," ","(","c","u","r","r","e","n","t",":"," ">>
                                 \o str_int(wc) \o <<")", ".">>),
                        !.meta.word_count_feedback =
                            [present |-> TRUE, word_count |-> wc, year_level |-> student_year,
                             status |-> "too_short_for_ai",
                             message |-> <<"T","e","x","t"," ","l","e","n","g","t","h"," ","i","s"," ","n","o","t"," ","e","n","o","u","g","h"," ","t","o"," ","r","u","n"," ","N","A","P","L","A","N"," ","e","v","a","l","u","a","t","i","o","n",".">>,
                             suggestion |-> <<"A","d","d"," ","m","o","r","e"," ","s","e","n","t","e","n","c","e","s"," ","w","i","t","h"," ","c","l","e","a","r"," ","i","d","e","a","s"," ","a","n","d"," ","d","e","t","a","i","l","s",","," ","t","h","e","n"," ","t","r","y"," ","a","g","a","i","n",".">>],
                        !.meta.prompt_relevance =
                            PR(JNum(0), JStr(<<"o","f","f","_","t","o","p","i","c">>), JStr(<<"T","o","o"," ","l","i","t","t","l","e"," ","t","e","x","t"," ","t","o"," ","j","u","d","g","e"," ","r","e","l","e","v","a","n","c","e",".">>), JStr(<<>>)),
                        !.overall.summary = <<"T","h","e"," ","r","e","s","p","o","n","s","e"," ","i","s"," ","t","o","o"," ","s","h","o","r","t"," ","t","o"," ","a","s","s","e","s","s"," ","r","e","l","i","a","b","l","y",".">>]
    IN  fill(base_output_shape(student_year, tt, max_total))

-----------------------------------------------------------------------------
(* Inputs of coerce_ai_feedback_schema *)

Topic(name, pct, scored, total) ==
    [name |-> name, percentage |-> pct, scored |-> scored, total |-> total,
     missed |-> IF total - scored > 0 THEN total - scored ELSE 0]

\* topics as analyze_performance reports them, weakest first
TopicPool ==
    << Topic(<<"F","r","a","c","t","i","o","n","s">>, 200, 2, 10),
       Topic(<<"l","o","w">>, 333, 1, 3),
       Topic(<<"A","l","g","e","b","r","a">>, 500, 5, 10) >>

WeakTopicsPool ==
    { <<>>,
      <<TopicPool[1]>>, <<TopicPool[2]>>, <<TopicPool[3]>>,
      <<TopicPool[1], TopicPool[2]>>, <<TopicPool[1], TopicPool[3]>>,
      <<TopicPool[2], TopicPool[3]>>,
      <<TopicPool[1], TopicPool[2], TopicPool[3]>> }

\* timing as compute_time_metrics and pace_label report it
TimingPool ==
    { [pace |-> "unknown", time_taken_minutes |-> NoneNum, seconds_per_question |-> NoneNum],
      [pace |-> "steady", time_taken_minutes |-> SomeNum(100), seconds_per_question |-> SomeNum(300)],
      [pace |-> "slow", time_taken_minutes |-> SomeNum(250), seconds_per_question |-> SomeNum(750)] }

AnalysisPool ==
    { [weak_topics |-> w, pace |-> t.pace,
       time_taken_minutes |-> t.time_taken_minutes,
       seconds_per_question |-> t.seconds_per_question] :
      w \in WeakTopicsPool, t \in TimingPool }

\* what the model may put in a list of strings
ItemPool ==
    { JStr(<<"f","r","a","c","t","i","o","n","s"," ","w","e","a","k">>),
      JStr(<<"S","l","o","w"," ","p","a","c","e">>),
      JStr(<<" ">>),
      JNum(7),
      JNull }

SeqsUpTo(S, n) == UNION { [1..m -> S] : m \in 0..n }

ListFieldPool == { JMissing, JNotList } \cup { JList(l) : l \in SeqsUpTo(ItemPool, MaxItems) }

\* the model's feedback object: not an object at all, or an object whose
\* coach, or whose weaknesses and growth_areas, are drawn from the pools (the
\* growth_areas being the weaknesses in reverse order)
AiPool ==
    LET none == [isdict |-> FALSE, overall_feedback |-> JNull, coach |-> JMissing, weaknesses |-> JMissing,
                 growth_areas |-> JMissing]
        obj == [none EXCEPT !.isdict = TRUE]
        reversed(f) == IF f.k = "list" /\ f.items # <<>>
                       THEN JList([i \in 1..Len(f.items) |-> f.items[Len(f.items) + 1 - i]])
                       ELSE f
        item(insight, reason, action) ==
            [isdict |-> TRUE, insight |-> insight, reason |-> reason, action |-> action]
        CoachItemPool ==
            { item(JStr(<<"R","e","v","i","s","e"," ","F","R","A","C","T","I","O","N","S"," ","f","a","c","t","s">>), JStr(<<"T","h","e","y"," ","c","o","s","t"," ","m","a","r","k","s">>),
                   JStr(<<"D","o"," ","f","i","v","e"," ","a"," ","d","a","y">>)),
              item(JStr(<<"R","e","a","d"," ","e","a","c","h"," ","q","u","e","s","t","i","o","n"," ","t","w","i","c","e">>), JStr(<<" ","M","a","r","k","s"," ","w","e","r","e"," ","l","o","w"," ","h","e","r","e"," ">>),
                   JNum(7)),
              item(JStr(<<"A","l","g","e","b","r","a"," ","b","a","s","i","c","s">>), JStr(<<"G","a","p","s">>), JNull),
              item(JStr(<<"C","h","e","c","k"," ","u","n","i","t","s">>), JStr(<<" ">>), JStr(<<"W","r","i","t","e"," ","t","h","e","m">>)),
              [isdict |-> FALSE, insight |-> JNull, reason |-> JNull, action |-> JNull] }
        OverallPool ==
            { JStr(<<>>), JStr(<<" ">>), JNum(7), JNum(0),
              JStr(<<" ","G","o","o","d"," ","w","o","r","k"," ","o","n"," ","f","r","a","c","t","i","o","n","s","."," ">>),
              JStr(<<"T","a","k","e"," ","y","o","u","r"," ","T","I","M","E","!">>),
              JStr(<<"D","o","n","e"," ","i","n"," ","2","5"," ","M","i","n","u","t","e","s",".">>) }
        CoachPool == { JMissing, JNotList }
                     \cup { JList(l) : l \in SeqsUpTo(CoachItemPool, MaxItems) }
    IN  { none }
        \cup { [obj EXCEPT !.weaknesses = w, !.growth_areas = reversed(w)] :
               w \in ListFieldPool }
        \cup { [obj EXCEPT !.coach = c] : c \in CoachPool }
        \cup { [obj EXCEPT !.overall_feedback = x] : x \in OverallPool }

NoFeedback == [overall_feedback |-> <<>>, coach |-> <<>>, weaknesses |-> <<>>,
               growth_areas |-> <<>>]

-----------------------------------------------------------------------------
(* Inputs of normalize_criteria_list *)

Crit(name, score, max, suggestion, evidence_quote) ==
    [isdict |-> TRUE, name |-> name, score |-> score, max |-> max,
     suggestion |-> suggestion, evidence_quote |-> evidence_quote]

\* an entry of the list that is no object
NotACrit == [isdict |-> FALSE, name |-> JNull, score |-> JNull, max |-> JNull,
             suggestion |-> JNull, evidence_quote |-> JNull]

CritPool ==
    { Crit(JStr(<<"a","u","d","i","e","n","c","e">>), JNum(9), JNull,
           JStr(<<"A","d","d"," ","d","e","t","a","i","l">>), JNull),
      Crit(JStr(<<" ","A","u","d","i","e","n","c","e"," ">>), JNum(3), JNum(6), JNull,
           JStr(<<"a"," ","q","u","o","t","e">>)),
      Crit(JStr(<<"C","r","e","a","t","i","v","i","t","y">>), JNum(7), JNum(5), JNull, JNull),
      Crit(JStr(<<"c","r","e","a","t","i","v","i","t","y">>), JNum(7), JNull, JNull, JNull),
      Crit(JStr(<<"P","e","r","s","u","a","s","i","v","e"," ","D","e","v","i","c","e","s">>),
           JNum(4), JNum(5), JStr(<<"U+2022">>), JNull),
      Crit(JStr(<<"I","d","e","a","s">>), JNum(-2), JNull, JStr(<<"U+2022">>), JNull),
      Crit(JStr(<<"S","p","e","l","l","i","n","g">>), JStr(<<"6">>), JNull, JNum(3), JNull),
      Crit(JStr(<<>>), JNum(4), JNum(6), JNull, JNull),
      Crit(JNum(5), JNum(4), JNum(6), JNull, JNull),
      NotACrit }

CritsPool == { JMissing, JNotList } \cup { JList(l) : l \in SeqsUpTo(CritPool, MaxCrits) }

NoCriteria == [raised |-> FALSE, normalized |-> <<>>, total_raw |-> 0]

-----------------------------------------------------------------------------
(* Inputs of ensure_review_sections_shape *)

Item(k, v) == [k |-> k, v |-> v]

NotASec == [isdict |-> FALSE, id |-> JNull, title |-> JNull, items |-> JMissing]

SectionPool ==
    LET
        \* titles: short, not a string, only stripped characters, and longer than the
        \* cap of 80 with no space, with a sentence end at the cut, and with the last
        \* space of the first 80 characters at position 80
        TitlePool ==
            { JStr(<<"F","i","x"," ","t","h","e","s","e">>), JNum(5), JNull, JStr(<<"U+2022", "U+2022">>),
              JStr(Rep("x", 90)),
              JStr(Rep("a", 70) \o <<".", " ">> \o Rep("b", 20)),
              JStr(Rep("a", 4) \o <<" ">> \o Rep("b", 74) \o <<" ">> \o Rep("c", 10)) }

        \* item lists: absent, not a list, mixed types, more items than any cap, and
        \* texts longer than the caps of 200 and 260
        ItemsPool ==
            { JMissing, JNotList,
              JList(<< Item("str", JStr(<<"U","s","e"," ","a"," "," ","s","t","r","o","n","g","e","r"," ","v","e","r","b">>)), Item("dict", JStr(<<"A","d","d"," ","U+201C","b","e","c","a","u","s","e","U+201D">>)),
                       Item("other", JNum(3)), Item("dict", JNum(3)) >>),
              JList([i \in 1..9 |-> Item("str", JStr(<<"i", DIGITS[i + 1]>>))]),
              JList(<< Item("str", JStr(Rep("a", 150) \o <<" ">> \o Rep("b", 60))) >>),
              JList(<< Item("dict", JStr(Rep("a", 255) \o <<".", " ">> \o Rep("b", 20))) >>) }
    IN
        { Sec(JStr(SECTIONS[3].id), t, JList(<<>>)) : t \in TitlePool }
        \cup { Sec(JStr(SECTIONS[i].id), JStr(<<"F","i","x"," ","t","h","e","s","e">>), l) : i \in {1, 4}, l \in ItemsPool }
        \cup { Sec(JStr(SECTIONS[2].id), JNull, JMissing),
               Sec(JStr(<<"e","x","t","r","a">>), JStr(<<"F","i","x"," ","t","h","e","s","e">>), JList(<<>>)),
               Sec(JNum(1), JStr(<<"F","i","x"," ","t","h","e","s","e">>), JList(<<>>)),
               NotASec }

ReviewPool == { JMissing, JNotList } \cup { JList(l) : l \in SeqsUpTo(SectionPool, MaxSections) }

-----------------------------------------------------------------------------
(* Inputs of evaluate_naplan_writing *)

\* a text of n one-letter words
Words(n) == [i \in 1..(2 * n - 1) |-> IF i % 2 = 1 THEN "w" ELSE " "]

RequestPool ==
    LET
        \* student writing: blank, blank once cleaned, and word counts on both sides
        \* of MIN_AI_WORDS and of the ranges of WORD_RANGES
        WritingPool ==
            { <<>>, <<" ", "\n">>, <<"U+2022", " ", "U+2022">> }
            \cup { Words(n) : n \in {1, 10, 19, 20, 21, 100, 160, 201} }

        \* prompts: a narrative signal, two persuasive signals, one of each
        PromptPool == { <<"W","r","i","t","e"," ","a"," ","s","t","o","r","y"," ","a","b","o","u","t"," ","a"," ","l","o","s","t"," ","d","o","g",".">>,
                        <<"S","h","o","u","l","d"," ","d","o","g","s"," ","b","e"," ","a","l","l","o","w","e","d"," ","a","t"," ","s","c","h","o","o","l","?"," ","P","e","r","s","u","a","d","e"," ","y","o","u","r"," ","r","e","a","d","e","r",".">>,
                        <<"T","e","l","l"," ","t","h","e"," ","s","t","o","r","y"," ","o","f"," ","w","h","y"," ","w","e"," ","s","h","o","u","l","d"," ","r","e","c","y","c","l","e",".">> }
        base == [student_year |-> 3, writing_prompt |-> <<"W","r","i","t","e"," ","a"," ","s","t","o","r","y"," ","a","b","o","u","t"," ","a"," ","l","o","s","t"," ","d","o","g",".">>,
                 student_writing |-> Words(20), text_type |-> "None", api_key |-> TRUE]
    IN  { [base EXCEPT !.student_year = y, !.student_writing = w, !.api_key = key] :
              y \in {3, 4, 5, 9}, w \in WritingPool, key \in BOOLEAN }
        \cup { [base EXCEPT !.writing_prompt = p, !.text_type = t] :
                  p \in PromptPool, t \in {"None", "Narrative", "Persuasive", "Poem"} }

\* a reply the code accepts as it is
GoodReply ==
    [raises |-> FALSE, error |-> <<>>, text |-> "json",
     data |->
       [k |-> "dict",
        meta |-> [k |-> "dict",
                  prompt_relevance |-> PR(JNum(85), JStr(<<"o","n","_","t","o","p","i","c">>), JStr(<<"S","t","a","y","s"," ","o","n"," ","t","h","e"," ","p","r","o","m","p","t",".">>), JStr(<<"a"," ","l","o","s","t"," ","d","o","g">>))],
        overall |-> [k |-> "dict", total_score |-> JNum(99), max_score |-> JNum(99),
                     band |-> JStr(BANDS[2]),
                     one_line_summary |-> JStr(<<"A"," ","c","l","e","a","r"," ","p","i","e","c","e",".">>),
                     summary |-> JStr(<<"I","d","e","a","s"," ","a","r","e"," ","c","l","e","a","r"," ","a","n","d"," ","i","n"," ","o","r","d","e","r",".">>),
                     strengths |-> JList(<<JStr(<<"C","l","e","a","r"," ","i","d","e","a","s">>)>>),
                     weaknesses |-> JList(<<JStr(<<"S","h","o","r","t"," ","p","a","r","a","g","r","a","p","h","s">>)>>)],
        criteria |-> JList(<<Crit(JStr(<<"A","u","d","i","e","n","c","e">>), JNum(4), JNum(6), JStr(<<"A","d","d"," ","d","e","t","a","i","l">>), JNull)>>),
        review_sections |-> JList(<<>>)]]

\* replies differing from GoodReply in one respect
ReplyPool ==
    LET g == GoodReply
        none == [k |-> "absent", total_score |-> JAbsent, max_score |-> JAbsent,
                 band |-> JAbsent, one_line_summary |-> JAbsent, summary |-> JAbsent,
                 strengths |-> JMissing, weaknesses |-> JMissing]
        mixed == JList(<< JStr(<<"a">>), JNum(2), JStr(<<" ">>), JStr(Rep("b", 130)),
                          JStr(<<"c">>), JStr(<<"d">>) >>)
    IN  { g }
        \cup { [g EXCEPT !.raises = TRUE, !.error = e] :
                  e \in { <<"5","0","3"," ","S","e","r","v","i","c","e"," ","U","n","a","v","a","i","l","a","b","l","e">>, Rep("e", 130) \o <<" ">> \o Rep("f", 140),
                           Rep("e", 261) } }
        \cup { [g EXCEPT !.text = t] : t \in {"empty", "no_object", "malformed"} }
        \cup { [g EXCEPT !.data.k = "other"] }
        \cup { [g EXCEPT !.data.meta.k = x] : x \in {"other", "absent"} }
        \cup { [g EXCEPT !.data.meta.prompt_relevance = pr] :
                  pr \in { [g.data.meta.prompt_relevance EXCEPT !.k = "absent"],
                           [g.data.meta.prompt_relevance EXCEPT !.k = "other"],
                           [g.data.meta.prompt_relevance EXCEPT !.has_verdict = FALSE],
                           PR(JNum(250), JStr(<<"m","a","y","b","e">>), JNull, JNull) } }
        \cup { [g EXCEPT !.data.overall = o] :
                  o \in { none, [g.data.overall EXCEPT !.k = "other"] } }
        \cup { [g EXCEPT !.data.overall.band = b] :
                  b \in { JAbsent, JNull, JStr(<<>>), JNum(3), JNum(0), JStr(BANDS[3]), JStr(<<"E","x","c","e","l","l","e","n","t">>),
                          JStr(<<" ">> \o BANDS[1] \o <<" ">>) } }
        \cup { [g EXCEPT !.data.overall.one_line_summary = x, !.data.overall.summary = x] :
                  x \in { JNum(7), JStr(<<" ">>),
                          JStr(Rep("a", 100) \o <<" ">> \o Rep("b", 200)),
                          JStr(Rep("a", 261)) } }
        \cup { [g EXCEPT !.data.overall.strengths = l, !.data.overall.weaknesses = l] :
                  l \in { JNotList, mixed } }
        \cup { [g EXCEPT !.data.criteria =
                            JList(<<Crit(JStr(<<"C","r","e","a","t","i","v","i","t","y">>),
                                         JNum(80), JNum(80), JNull, JNull)>>)] }
        \cup { [g EXCEPT !.data.criteria = c] :
                  c \in { JMissing, JNotList }
                        \cup { JList(l) : l \in SeqsUpTo(CritPool, MaxReplyList) } }
        \cup { [g EXCEPT !.data.review_sections = r] :
                  r \in { JMissing, JNotList }
                        \cup { JList(l) : l \in SeqsUpTo(SectionPool, MaxReplyList) } }

\* lines 208-212
resolve_text_type(r) ==
    LET known(t) == IF t \in {"Narrative", "Persuasive"} THEN t ELSE "Narrative"
    IN  known(IF r.text_type = "None"
              THEN guess_text_type(r.writing_prompt, r.student_writing)
              ELSE r.text_type)

\* the value the call hands back, or the exception that leaves it
Returned(success, error, has_result, result) ==
    [returned |-> TRUE, raised |-> FALSE, success |-> success, error |-> error,
     has_result |-> has_result, result |-> result]

\* the locals, the reply and the outcome before the call
EvalAtRest ==
    /\ ev = [text_type |-> "", student_clean |-> <<>>, prompt_clean |-> <<>>,
             max_total |-> 0, wc |-> 0, word_count_feedback |-> NoWcf,
             exc |-> "none", msg |-> <<>>]
    /\ reply = GoodReply
    /\ calls = 0
    /\ out = [Returned(FALSE, JAbsent, FALSE, base_output_shape(0, "", 0))
                 EXCEPT !.returned = FALSE]

-----------------------------------------------------------------------------
(* subject_feedback/gemini_subject_feedback.py: the document and its analysis *)
(* Scores, totals and durations are whole numbers, never negative; a        *)
(* percentage the code holds unrounded is the ratio num/den.  The Mongo     *)
(* objects {"$numberDecimal": s}, {"$numberInt": s} and {"$numberLong": s}  *)
(* are the scalar of kind "ext" with text s.                                *)

infer_subject_from_quiz_name(quiz_name) ==
    LET has(w) == Contains(lower(quiz_name), w)
    IN  IF has(<<"n","u","m","e","r","a","c","y">>) \/ has(<<"m","a","t","h","e","m","a","t","i","c","s">>) \/ has(<<"m","a","t","h">>)
        THEN <<"N","u","m","e","r","a","c","y"," ","(","M","a","t","h","e","m","a","t","i","c","s",")">>
        ELSE IF (has(<<"l","a","n","g","u","a","g","e">>) /\ has(<<"c","o","n","v","e","n","t","i","o","n">>)) \/ has(<<"c","o","n","v","e","n","t","i","o","n">>)
        THEN <<"L","a","n","g","u","a","g","e"," ","C","o","n","v","e","n","t","i","o","n","s">>
        ELSE IF has(<<"r","e","a","d","i","n","g">>) THEN <<"R","e","a","d","i","n","g">>
        ELSE IF has(<<"w","r","i","t","i","n","g">>) THEN <<"W","r","i","t","i","n","g">>
        ELSE <<"N","A","P","L","A","N"," ","A","s","s","e","s","s","m","e","n","t">>

infer_year_level(doc, quiz_name) ==
    LET q == quiz_name
        years == {3, 5, 7, 9}
        words == {<<"y","e","a","r">>, <<"y","r">>, <<"g","r","a","d","e">>}
        year_digit(c) == \E y \in years : DIGITS[y + 1] = c
        value(c) == (CHOOSE i \in 1..10 : DIGITS[i] = c) - 1
        \* 1) the keys year_level, yearLevel, grade, year of the document
        from_key(v) ==
            CASE v.k = "num" -> IF v.n \in years THEN SomeNum(v.n) ELSE NoneNum
              [] v.k = "str" -> IF Len(strip(v.s)) = 1 /\ year_digit(strip(v.s)[1])
                                THEN SomeNum(value(strip(v.s)[1]))
                                ELSE NoneNum
              [] OTHER       -> NoneNum
        keys == {i \in 1..Len(doc.year_keys) : from_key(doc.year_keys[i]).some}
        \* 2) YEAR_RE and YEAR_DIGIT_RE: \w, \b, \s* and the places <<start, digit>>
        \*    where each expression matches
        word_char(j) == /\ j >= 1 /\ j <= Len(q)
                        /\ \/ \E i \in 1..26 : UPPER[i] = q[j] \/ LOWER[i] = q[j]
                           \/ \E i \in 1..10 : DIGITS[i] = q[j]
                           \/ q[j] = "_"
        boundary(i) == word_char(i - 1) # word_char(i)
        spaces(a, b) == \A k \in a..b : q[k] \in WS
        word_at(i, w) == /\ i + Len(w) - 1 <= Len(q)
                         /\ lower(SubSeq(q, i, i + Len(w) - 1)) = w
        digit_at(j) == j <= Len(q) /\ year_digit(q[j])
        year_re ==
            {<<p[1], q[p[2]]>> :
                p \in {p \in (1..Len(q)) \X (1..Len(q)) :
                          /\ boundary(p[1])
                          /\ digit_at(p[2]) /\ boundary(p[2] + 1)
                          /\ \E w \in words :
                                /\ word_at(p[1], w)
                                /\ p[2] >= p[1] + Len(w)
                                /\ spaces(p[1] + Len(w), p[2] - 1)}}
        year_digit_re ==
            {<<i, q[i]>> : i \in {i \in 1..Len(q) :
                                     /\ boundary(i) /\ digit_at(i)
                                     /\ \E j \in (i + 1)..Len(q), w \in words :
                                           /\ spaces(i + 1, j - 1)
                                           /\ word_at(j, w)
                                           /\ boundary(j + Len(w))}}
        first(matches) ==
            IF matches = {} THEN NoneNum
            ELSE SomeNum(value((CHOOSE m \in matches :
                                    \A o \in matches : m[1] <= o[1])[2]))
        \* 3) the name in lower case without its spaces
        ql == SelectSeq(lower(q), LAMBDA c : c # " ")
        compact == {y \in years : \E w \in words : Contains(ql, w \o <<DIGITS[y + 1]>>)}
    IN  IF keys # {} THEN from_key(doc.year_keys[Min(keys)])
        ELSE IF year_re # {} THEN first(year_re)
        ELSE IF year_digit_re # {} THEN first(year_digit_re)
        ELSE IF compact # {} THEN SomeNum(Min(compact))
        ELSE NoneNum

\* float(s) reads the text of a whole number; any other text of the inputs is
\* not a number
to_number(x) ==
    LET t == strip(x.s)
        digit(i) == \E d \in 1..10 : DIGITS[d] = t[i]
        place(i) == ((CHOOSE d \in 1..10 : DIGITS[d] = t[i]) - 1) * (10 ^ (Len(t) - i))
        sum[i \in 0..Len(t)] == IF i = 0 THEN 0 ELSE sum[i - 1] + place(i)
    IN  CASE x.k = "num" -> SomeNum(x.n)
          [] x.k \in {"str", "ext"} ->
                 IF t # <<>> /\ \A i \in 1..Len(t) : digit(i)
                 THEN SomeNum(sum[Len(t)])
                 ELSE NoneNum
          [] OTHER -> NoneNum

topic_scored_total(v) ==
    LET pairs == << <<v.scored, v.total>>, <<v.points, v.available>>,
                    <<v.points_scored, v.points_available>>,
                    <<v.correct, v.attempted>> >>
        hits == {i \in 1..4 : to_number(pairs[i][1]).some /\ to_number(pairs[i][2]).some}
    IN  IF hits = {} THEN [some |-> FALSE, scored |-> 0, total |-> 0]
        ELSE [some |-> TRUE, scored |-> to_number(pairs[Min(hits)][1]).v,
              total |-> to_number(pairs[Min(hits)][2]).v]

\* sum(xs) of a list of numbers
RECURSIVE fsum(_)
fsum(xs) == IF xs = <<>> THEN 0 ELSE Head(xs) + fsum(Tail(xs))

\* lines 145-161: the topics that are objects holding a pair of numbers
normalized_topics(doc) ==
    LET usable(it) == it.v.isdict /\ topic_scored_total(it.v).some
        norm(it) == [name |-> it.name, scored |-> topic_scored_total(it.v).scored,
                     total |-> topic_scored_total(it.v).total]
        kept == IF doc.topicBreakdown.isdict
                THEN SelectSeq(doc.topicBreakdown.items, usable)
                ELSE <<>>
    IN  IF kept = <<>> THEN <<>> ELSE [i \in 1..Len(kept) |-> norm(kept[i])]

\* the pair (student_data, err); err is empty for None
normalize_student_data(doc) ==
    LET none == [some |-> FALSE, num |-> 0, den |-> 1]
        ratio(num, den) == [some |-> TRUE, num |-> num, den |-> den]
        score_obj == IF doc.score.k = "absent"
                     THEN [doc.score EXCEPT !.k = "dict"]
                     ELSE doc.score
        from_score == IF score_obj.k # "dict" THEN none
                      ELSE IF to_number(score_obj.percentage).some
                      THEN ratio(to_number(score_obj.percentage).v, 1)
                      ELSE IF /\ to_number(score_obj.points).some
                              /\ to_number(score_obj.available).some
                              /\ to_number(score_obj.available).v > 0
                      THEN ratio(to_number(score_obj.points).v * 100,
                                 to_number(score_obj.available).v)
                      ELSE none
        grade == IF score_obj.k = "dict" /\ score_obj.grade.k = "str"
                 THEN score_obj.grade.s ELSE <<>>
        total_of(topics, field) ==
            fsum(IF topics = <<>> THEN <<>>
                 ELSE [i \in 1..Len(topics) |-> topics[i][field]])
        from_topics(topics) ==
            IF total_of(topics, "total") > 0
            THEN ratio(total_of(topics, "scored") * 100, total_of(topics, "total"))
            ELSE none
        student_data(topics, percentage) ==
            [total_score |-> [percentage |-> percentage, grade |-> grade],
             sub_subjects |-> topics]
        result(topics, percentage) ==
            IF topics = <<>>
            THEN [student_data |-> student_data(<<>>, none),
                  err |-> <<"M","i","s","s","i","n","g","/","e","m","p","t","y"," ","t","o","p","i","c","B","r","e","a","k","d","o","w","n"," ","(","e","x","p","e","c","t","e","d"," ","a","n"," ","o","b","j","e","c","t"," ","w","i","t","h"," ","{","t","o","p","i","c",":","{","s","c","o","r","e","d",",","t","o","t","a","l","}","}"," ","o","r"," ","c","o","m","p","a","t","i","b","l","e"," ","k","e","y","s",")">>]
            ELSE IF ~percentage.some
            THEN [student_data |-> student_data(<<>>, none),
                  err |-> <<"M","i","s","s","i","n","g"," ","o","v","e","r","a","l","l"," ","p","e","r","c","e","n","t","a","g","e"," ","(","s","c","o","r","e",".","p","e","r","c","e","n","t","a","g","e"," ","o","r"," ","s","c","o","r","e",".","p","o","i","n","t","s","/","a","v","a","i","l","a","b","l","e"," ","o","r"," ","c","o","m","p","u","t","a","b","l","e"," ","f","r","o","m"," ","t","o","p","i","c","s",")">>]
            ELSE [student_data |-> student_data(topics, percentage), err |-> <<>>]
    IN  result(normalized_topics(doc),
               IF from_score.some THEN from_score ELSE from_topics(normalized_topics(doc)))

is_no_attempt_session_strict(doc, topics) ==
    fsum(IF topics = <<>> THEN <<>> ELSE [i \in 1..Len(topics) |-> topics[i].total]) < 0

is_no_attempt_session(doc, topics) ==
    fsum(IF topics = <<>> THEN <<>> ELSE [i \in 1..Len(topics) |-> topics[i].total]) <= 0

\* round(num / den, 1) in tenths, for den > 0; a tie goes to the even tenth
round1(num, den) ==
    LET q == (10 * num) \div den
        r == (10 * num) % den
    IN  IF 2 * r < den THEN q
        ELSE IF 2 * r > den THEN q + 1
        ELSE IF q % 2 = 0 THEN q ELSE q + 1

compute_time_metrics(doc, topics) ==
    LET d == to_number(doc.duration)
        time_taken_minutes ==
            IF ~d.some THEN NoneNum
            ELSE IF d.v > 100000 THEN SomeNum(round1(d.v, 60000))
            ELSE SomeNum(round1(d.v, 60))
        total_questions ==
            fsum(IF topics = <<>> THEN <<>> ELSE [i \in 1..Len(topics) |-> topics[i].total])
    IN  [time_taken_minutes |-> time_taken_minutes,
         total_questions |-> total_questions,
         seconds_per_question |->
             IF time_taken_minutes.some /\ total_questions > 0
             THEN SomeNum(round1(time_taken_minutes.v * 6, total_questions))
             ELSE NoneNum]

pace_label(year_level, seconds_per_question) ==
    LET fast == CASE year_level = SomeNum(3) -> 25 [] year_level = SomeNum(5) -> 22
                  [] year_level = SomeNum(7) -> 20 [] year_level = SomeNum(9) -> 18
                  [] OTHER -> 20
        slow == CASE year_level = SomeNum(3) -> 70 [] year_level = SomeNum(5) -> 60
                  [] year_level = SomeNum(7) -> 55 [] year_level = SomeNum(9) -> 50
                  [] OTHER -> 60
    IN  IF ~seconds_per_question.some THEN "unknown"
        ELSE IF seconds_per_question.v < fast * 10 THEN "fast"
        ELSE IF seconds_per_question.v > slow * 10 THEN "slow"
        ELSE "steady"

\* lines 297-300 keeping the order of line 293, strongest of the three first
weakest_last(topic_perf) ==
    IF topic_perf = <<>> THEN <<>>
    ELSE [i \in 1..Min({3, Len(topic_perf)}) |->
             topic_perf[Len(topic_perf) - Min({3, Len(topic_perf)}) + i]]

\* lines 297-300: the last three of the sorted list, or all of a shorter
\* one, reversed
weakest_first(topic_perf) ==
    IF topic_perf = <<>> THEN <<>>
    ELSE [i \in 1..Min({3, Len(topic_perf)}) |-> topic_perf[Len(topic_perf) + 1 - i]]

analyze_performance(sd, doc, year_level) ==
    LET attempted == SelectSeq(sd.sub_subjects, LAMBDA t : t.total # 0)
        perf(t) == Topic(t.name, round1(t.scored * 100, t.total), t.scored, t.total)
        unsorted == IF attempted = <<>> THEN <<>>
                    ELSE [i \in 1..Len(attempted) |-> perf(attempted[i])]
        n == Len(attempted)
        \* sort(key=percentage, reverse=True): equal percentages keep their order
        before(i) == {j \in 1..n :
                         \/ unsorted[j].percentage > unsorted[i].percentage
                         \/ unsorted[j].percentage = unsorted[i].percentage /\ j < i}
        topic_perf == IF n = 0 THEN <<>>
                      ELSE [p \in 1..n |->
                               unsorted[CHOOSE i \in 1..n : Cardinality(before(i)) = p - 1]]
        tm == compute_time_metrics(doc, sd.sub_subjects)
        is_high(t) == t.scored * 100 >= 80 * t.total
        is_low(t) == ~is_high(t) /\ t.scored * 100 <= 30 * t.total
    IN  [year_level |-> year_level,
         overall_percentage |-> round1(sd.total_score.percentage.num,
                                       sd.total_score.percentage.den),
         accuracy |-> round1(sd.total_score.percentage.num,
                             sd.total_score.percentage.den),
         grade |-> sd.total_score.grade,
         time_taken_minutes |-> tm.time_taken_minutes,
         total_questions |-> tm.total_questions,
         seconds_per_question |-> tm.seconds_per_question,
         pace |-> pace_label(year_level, tm.seconds_per_question),
         high_performance_count |-> Cardinality({i \in 1..n : is_high(attempted[i])}),
         low_performance_count |-> Cardinality({i \in 1..n : is_low(attempted[i])}),
         top_topics |-> Take(topic_perf, 3),
         weak_topics |-> weakest_first(topic_perf)]

-----------------------------------------------------------------------------
(* subject_feedback/gemini_subject_feedback.py: placeholder, retry and main *)

DEFAULT_MAX_RETRIES == 2

\* what main prints in this case; generated_at, the reading of the clock, is
\* left out
placeholder_feedback(subject, quiz_name, model_name, year_level) ==
    [printed |-> TRUE,
     success |-> TRUE,
     performance_analysis |->
        [year_level |-> year_level, overall_percentage |-> 0, accuracy |-> 0,
         grade |-> <<>>, time_taken_minutes |-> NoneNum, total_questions |-> 0,
         seconds_per_question |-> NoneNum, pace |-> "unknown",
         high_performance_count |-> 0, low_performance_count |-> 0,
         top_topics |-> <<>>, weak_topics |-> <<>>],
     ai_feedback |->
        [overall_feedback |-> <<"C","o","m","p","l","e","t","e"," ","y","o","u","r"," ","f","i","r","s","t"," ","q","u","i","z"," ","t","o"," ","u","n","l","o","c","k"," ","i","n","s","i","g","h","t","s","."," ","T","i","m","i","n","g"," ","w","i","l","l"," ","a","p","p","e","a","r"," ","a","f","t","e","r"," ","a","t","t","e","m","p","t","s",".">>,
         coach |-> << [insight |-> <<"N","o"," ","c","o","m","p","l","e","t","e","d"," ","a","t","t","e","m","p","t"," ","f","o","u","n","d"," ","y","e","t",".">>,
                       reason |-> <<"W","e"," ","n","e","e","d"," ","a","n","s","w","e","r","s"," ","t","o"," ","i","d","e","n","t","i","f","y"," ","s","t","r","e","n","g","t","h","s"," ","a","n","d"," ","w","e","a","k","n","e","s","s","e","s",".">>,
                       action |-> <<"T","r","y"," ","a"," ","s","h","o","r","t"," ","p","r","a","c","t","i","c","e"," ","s","e","t"," ","f","o","r"," ","5","U+2013","1","0"," ","m","i","n","u","t","e","s",".">>] >>,
         strengths |-> <<>>,
         weaknesses |-> <<>>,
         growth_areas |-> <<>>,
         study_tips |-> << <<"S","t","a","r","t"," ","w","i","t","h"," ","a"," ","s","m","a","l","l"," ","s","e","t"," ","o","f"," ","q","u","e","s","t","i","o","n","s">>,
                           <<"W","o","r","k"," ","i","n"," ","s","h","o","r","t"," ","f","o","c","u","s","e","d"," ","s","e","s","s","i","o","n","s">>,
                           <<"R","e","v","i","e","w"," ","m","i","s","t","a","k","e","s"," ","t","o"," ","l","e","a","r","n"," ","f","a","s","t","e","r">> >>,
         cta |-> <<"T","a","k","e"," ","y","o","u","r"," ","f","i","r","s","t"," ","q","u","i","z"," ","t","o"," ","u","n","l","o","c","k"," ","y","o","u","r"," ","A","I"," ","C","o","a","c","h","!">>,
         encouragement |-> <<"Y","o","u"," ","a","r","e"," ","r","e","a","d","y"," ","t","o"," ","s","t","a","r","t","."," ","O","n","e"," ","s","m","a","l","l"," ","s","t","e","p"," ","t","o","d","a","y"," ","i","s"," ","p","r","o","g","r","e","s","s",".">>],
     ai_feedback_meta |->
        [model |-> model_name, subject |-> subject, quiz_name |-> quiz_name,
         year_level |-> year_level,
         source |-> <<"s","u","b","j","e","c","t","_","f","e","e","d","b","a","c","k","/","g","e","m","i","n","i","_","s","u","b","j","e","c","t","_","f","e","e","d","b","a","c","k","_","f","i","x","e","d",".","p","y">>,
         status |-> <<"d","o","n","e">>,
         status_message |-> <<"R","e","a","d","y"," ","-"," ","a","w","a","i","t","i","n","g"," ","f","i","r","s","t"," ","q","u","i","z"," ","a","t","t","e","m","p","t">>]]

\* A reply r is one call of model.generate_content and the text of its response:
\*   "raises"      the call raises an exception, r.why its text
\*   "empty"       the response has no text
\*   "json"        the text, or its first fenced block, is the JSON value r.value
\*   "braced_json" only the text from its first { to its last } is JSON
\*   "no_object"   the text is not JSON and lacks a { or a }; r.shown is text[:200]
\*   "bad_object"  the text from { to } is not JSON: json.loads raises r.why,
\*                 r.shown is clean[:200]
\* The result is the value returned, or the text of the ValueError raised.
safe_json_from_text(r) ==
    CASE r.kind \in {"json", "braced_json"} ->
             [raised |-> FALSE, value |-> r.value, error |-> <<>>]
      [] r.kind = "no_object" ->
             [raised |-> TRUE, value |-> r.value,
              error |-> <<"G","e","m","i","n","i"," ","d","i","d"," ","n","o","t"," ","r","e","t","u","r","n"," ","a"," ","J","S","O","N"," ","o","b","j","e","c","t","."," ","R","e","s","p","o","n","s","e"," ","w","a","s",":"," ">> \o r.shown]
      [] OTHER ->
             [raised |-> TRUE, value |-> r.value,
              error |-> <<"I","n","v","a","l","i","d"," ","J","S","O","N"," ","f","r","o","m"," ","G","e","m","i","n","i",":"," ">> \o r.why \o <<"\n","C","o","n","t","e","n","t",":"," ">> \o r.shown]

exhausted_at_once(attempt, max_retries) == TRUE

\* line 510
exhausted(attempt, max_retries) == attempt >= max_retries - 1

\* The frame g of generate_feedback after one more pass of its loop, the model
\* having replied r
generate_feedback(g, r) ==
    LET body == CASE r.kind = "raises" ->
                         [raised |-> TRUE, value |-> r.value, error |-> r.why]
                  [] r.kind = "empty" ->
                         [raised |-> TRUE, value |-> r.value,
                          error |-> <<"E","m","p","t","y"," ","r","e","s","p","o","n","s","e"," ","f","r","o","m"," ","G","e","m","i","n","i">>]
                  [] OTHER -> safe_json_from_text(r)
    IN  IF ~body.raised
        THEN [g EXCEPT !.status = "returned", !.value = body.value]
        ELSE IF exhausted(g.attempt, g.max_retries)
        THEN [g EXCEPT !.last_error = body.error, !.status = "raised",
                       !.error = <<"F","a","i","l","e","d"," ","a","f","t","e","r"," ">> \o str_int(g.max_retries)
                                 \o <<" ","a","t","t","e","m","p","t","s",":"," ">> \o body.error]
        ELSE [g EXCEPT !.last_error = body.error, !.attempt = g.attempt + 1]

-----------------------------------------------------------------------------
(* Inputs of main: what stdin holds, the environment, the model's replies *)

\* the entries a topicBreakdown object may hold
TopicItems ==
    LET none == [isdict |-> TRUE, scored |-> JAbsent, total |-> JAbsent,
                 points |-> JAbsent, available |-> JAbsent,
                 points_scored |-> JAbsent, points_available |-> JAbsent,
                 correct |-> JAbsent, attempted |-> JAbsent]
        ext(s) == [k |-> "ext", s |-> s, n |-> 0]
    IN  << [name |-> <<"F","r","a","c","t","i","o","n","s">>,
            v |-> [none EXCEPT !.scored = JNum(2), !.total = JNum(10)]],
           [name |-> <<"l","o","w">>,
            v |-> [none EXCEPT !.points = JStr(<<"1">>), !.available = ext(<<" ","3"," ">>)]],
           [name |-> <<"A","l","g","e","b","r","a">>,
            v |-> [none EXCEPT !.scored = JNum(9), !.correct = JNum(5),
                               !.attempted = JNum(10)]],
           [name |-> <<"G","e","o","m","e","t","r","y">>,
            v |-> [none EXCEPT !.scored = JNum(0), !.total = JStr(<<"0">>)]],
           [name |-> <<"N","o","t","e","s">>, v |-> [none EXCEPT !.isdict = FALSE]],
           [name |-> <<"B","a","d">>,
            v |-> [none EXCEPT !.scored = JStr(<<"a","b","c">>), !.total = JNum(3)]] >>

\* stdin, GEMINI_API_KEY, GEMINI_MODEL, and the error of genai when it cannot
\* be initialised
PayloadPool ==
    LET breakdowns ==
            { [isdict |-> FALSE, items |-> <<>>] }
            \cup { [isdict |-> TRUE, items |-> [i \in 1..Len(l) |-> TopicItems[l[i]]]] :
                   l \in { l \in SeqsUpTo(1..Len(TopicItems), MaxTopics) :
                               \A i, j \in 1..Len(l) : i # j => l[i] # l[j] } }
        score(k, percentage, points, available, grade) ==
            [k |-> k, percentage |-> percentage, points |-> points,
             available |-> available, grade |-> grade]
        scores ==
            { score("absent", JAbsent, JAbsent, JAbsent, JAbsent),
              score("other", JAbsent, JAbsent, JAbsent, JAbsent),
              score("dict", JNum(0), JAbsent, JAbsent, JStr(<<"B">>)),
              score("dict", JAbsent, JNum(3), JNum(10), JAbsent),
              score("dict", JStr(<<>>), JNum(0), JNum(0), JNull) }
        numeracy == JStr(<<"Y","e","a","r"," ","3"," ","N","u","m","e","r","a","c","y">>)
        base(quiz_name, s, t, api_key) ==
            [json_ok |-> TRUE, json_error |-> <<>>,
             doc |-> [quiz_name |-> quiz_name, quizName |-> JAbsent,
                      year_keys |-> <<JAbsent, JAbsent, JAbsent, JAbsent>>,
                      score |-> s, topicBreakdown |-> t, duration |-> JAbsent],
             api_key |-> api_key, gemini_model |-> <<>>, genai_error |-> <<>>]
        taken == base(numeracy, score("absent", JAbsent, JAbsent, JAbsent, JAbsent),
                      [isdict |-> TRUE,
                       items |-> <<TopicItems[1], TopicItems[2], TopicItems[3]>>],
                      <<"k">>)
        varied ==
            { [taken EXCEPT !.json_ok = FALSE,
                            !.json_error = <<"E","x","p","e","c","t","i","n","g"," ","v","a","l","u","e",":"," ","l","i","n","e"," ","1"," ","c","o","l","u","m","n"," ","1"," ","(","c","h","a","r"," ","0",")">>],
              [taken EXCEPT !.genai_error = <<"N","o"," ","m","o","d","u","l","e"," ","b","a","c","k","e","n","d">>],
              [taken EXCEPT !.gemini_model = <<" ","g","e","m","i","n","i","-","p","r","o"," ">>],
              [taken EXCEPT !.doc.quiz_name = JStr(<<>>),
                            !.doc.quizName = JStr(<<"R","e","a","d","i","n","g"," ","y","r","5">>)],
              [taken EXCEPT !.doc.quiz_name = JAbsent],
              [taken EXCEPT !.doc.quiz_name = JStr(<<"7"," ","G","r","a","d","e"," ","L","a","n","g","u","a","g","e"," ","C","o","n","v","e","n","t","i","o","n","s">>)],
              [taken EXCEPT !.doc.year_keys = <<JStr(<<"4">>), JAbsent, JNum(9), JStr(<<" ","5"," ">>)>>],
              [taken EXCEPT !.doc.year_keys = <<JAbsent, JStr(<<" ","5"," ">>), JAbsent, JAbsent>>],
              [taken EXCEPT !.doc.duration = JNum(600)],
              [taken EXCEPT !.doc.duration = JNum(1500000)],
              [taken EXCEPT !.doc.duration = JStr(<<"9","0">>)] }
    IN  varied \cup
        { base(q, s, t, k) : q \in {numeracy, JStr(<<"Y","r","5"," ","W","r","i","t","i","n","g">>)},
                             s \in scores, t \in breakdowns,
                             k \in {<<>>, <<" ">>, <<"k">>} }

\* the replies of the model
ResponsePool ==
    LET response(kind, value, shown, why) ==
            [kind |-> kind, value |-> value, shown |-> shown, why |-> why]
        not_an_object == [isdict |-> FALSE, overall_feedback |-> JNull, coach |-> JMissing, weaknesses |-> JMissing, growth_areas |-> JMissing]
    IN  { response("raises", not_an_object, <<>>, <<"4","2","9"," ","q","u","o","t","a"," ","e","x","c","e","e","d","e","d">>),
          response("empty", not_an_object, <<>>, <<>>),
          response("json", [isdict |-> TRUE, overall_feedback |-> JNull, coach |-> JNotList,
                            weaknesses |-> JList(<<JStr(<<"S","l","o","w"," ","p","a","c","e">>)>>),
                            growth_areas |-> JList(<<JNull, JStr(<<"L","o","w"," ","s","c","o","r","e","s">>)>>)], <<>>, <<>>),
          response("json", not_an_object, <<>>, <<>>),
          response("braced_json", [isdict |-> TRUE, overall_feedback |-> JNull, coach |-> JMissing, weaknesses |-> JMissing,
                                   growth_areas |-> JMissing], <<>>, <<>>),
          response("no_object", not_an_object, <<"S","o","r","r","y",","," ","I"," ","c","a","n","n","o","t"," ","h","e","l","p",".">>, <<>>),
          response("bad_object", not_an_object, <<"{","o","o","p","s","}">>,
                   <<"E","x","p","e","c","t","i","n","g"," ","p","r","o","p","e","r","t","y"," ","n","a","m","e"," ","e","n","c","l","o","s","e","d"," ","i","n"," ","d","o","u","b","l","e"," ","q","u","o","t","e","s",":"," ","l","i","n","e"," ","1"," ","c","o","l","u","m","n"," ","2"," ","(","c","h","a","r"," ","1",")">>) }

\* the locals, the model and the output before main runs
MainAtRest ==
    /\ loc = [quiz_name |-> <<>>, subject |-> <<>>]
    /\ model = [init_calls |-> 0, replies |-> <<>>]
    /\ gen = [max_retries |-> DEFAULT_MAX_RETRIES, attempt |-> 0, last_error |-> <<>>,
              status |-> "idle", value |-> [isdict |-> FALSE, overall_feedback |-> JNull, coach |-> JMissing, weaknesses |-> JMissing, growth_areas |-> JMissing],
              error |-> <<>>]
    /\ stdout = [printed |-> FALSE]

-----------------------------------------------------------------------------
(* Each specification runs one entry point; the state of the others rests *)

Idle(g) ==
    /\ IF g = "coerce" THEN TRUE
       ELSE /\ ai = [isdict |-> FALSE, overall_feedback |-> JNull, coach |-> JMissing, weaknesses |-> JMissing, growth_areas |-> JMissing]
            /\ analysis = [weak_topics |-> <<>>, pace |-> "unknown",
                           time_taken_minutes |-> NoneNum, seconds_per_question |-> NoneNum]
            /\ feedback = NoFeedback
    /\ IF g = "criteria" THEN TRUE
       ELSE /\ crits = JMissing
            /\ text_type = "Narrative"
            /\ criteria = NoCriteria
    /\ IF g = "review" THEN TRUE
       ELSE /\ review_sections = JMissing
            /\ shaped_once = JMissing
    /\ IF g = "eval" THEN TRUE
       ELSE /\ req = [student_year |-> 3, writing_prompt |-> <<>>, student_writing |-> <<>>,
                      text_type |-> "None", api_key |-> FALSE]
            /\ EvalAtRest
    /\ IF g = "main" THEN TRUE
       ELSE /\ payload = [json_ok |-> FALSE]
            /\ MainAtRest
    /\ IF g = "band" THEN TRUE
       ELSE /\ marks = [total |-> 0, max_score |-> 0]
            /\ standard = <<>>
    /\ IF g = "perf" THEN TRUE
       ELSE /\ sub_subjects = <<>>
            /\ performance = <<>>

Frame(g) ==
    /\ IF g = "coerce" THEN TRUE ELSE UNCHANGED <<ai, analysis, feedback>>
    /\ IF g = "criteria" THEN TRUE ELSE UNCHANGED <<crits, text_type, criteria>>
    /\ IF g = "review" THEN TRUE ELSE UNCHANGED <<review_sections, shaped_once>>
    /\ IF g = "eval" THEN TRUE ELSE UNCHANGED <<req, ev, reply, calls, out>>
    /\ IF g = "main" THEN TRUE ELSE UNCHANGED <<payload, loc, model, gen, stdout>>
    /\ IF g = "band" THEN TRUE ELSE UNCHANGED <<marks, standard>>
    /\ IF g = "perf" THEN TRUE ELSE UNCHANGED <<sub_subjects, performance>>

-----------------------------------------------------------------------------
(* Specification of coerce_ai_feedback_schema as a pure function *)

\* a feedback object that holds a coach is paired with the analyses of unknown
\* timing: the coach is made from weak_topics alone
InitCoerce ==
    /\ pc = "coerce"
    /\ ai \in AiPool
    /\ analysis \in AnalysisPool
    /\ ai.coach.k # "missing" => analysis.pace = "unknown"
    /\ feedback = NoFeedback
    /\ Idle("coerce")

Coerce ==
    /\ pc = "coerce"
    /\ feedback' = coerce_ai_feedback_schema(ai, analysis)
    /\ pc' = "coerced"
    /\ UNCHANGED <<ai, analysis>>
    /\ Frame("coerce")

SpecCoerce == InitCoerce /\ [][Coerce]_vars

-----------------------------------------------------------------------------
(* Specification of normalize_criteria_list as a pure function *)

InitCriteria ==
    /\ pc = "normalize"
    /\ crits \in CritsPool
    /\ text_type \in {"Narrative", "Persuasive"}
    /\ criteria = NoCriteria
    /\ Idle("criteria")

Normalize ==
    /\ pc = "normalize"
    /\ criteria' = normalize_criteria_list(crits, build_schema_max(text_type), text_type)
    /\ pc' = "normalized"
    /\ UNCHANGED <<crits, text_type>>
    /\ Frame("criteria")

SpecCriteria == InitCriteria /\ [][Normalize]_vars

-----------------------------------------------------------------------------
(* Specification of ensure_review_sections_shape applied twice to one object *)

InitReview ==
    /\ pc = "shape"
    /\ review_sections \in ReviewPool
    /\ shaped_once = JMissing
    /\ Idle("review")

Shape ==
    /\ pc = "shape"
    /\ review_sections' = ensure_review_sections_shape(review_sections)
    /\ shaped_once' = review_sections'
    /\ pc' = "shaped"
    /\ Frame("review")

Reshape ==
    /\ pc = "shaped"
    /\ review_sections' = ensure_review_sections_shape(review_sections)
    /\ pc' = "reshaped"
    /\ UNCHANGED shaped_once
    /\ Frame("review")

NextReview == Shape \/ Reshape

SpecReview == InitReview /\ [][NextReview]_vars

-----------------------------------------------------------------------------
(* Specification of evaluate_naplan_writing *)

InitEval ==
    /\ pc = "start"
    /\ req \in RequestPool
    /\ EvalAtRest
    /\ Idle("eval")

\* lines 208-219: text type, cleaned texts and max_total
Start ==
    /\ pc = "start"
    /\ ev' = [ev EXCEPT !.text_type = resolve_text_type(req),
                        !.student_clean = cleaned_for_checks(req.student_writing),
                        !.prompt_clean = sanitize_text(req.writing_prompt, 4000),
                        !.max_total = sum_int_max(build_schema_max(resolve_text_type(req)))]
    /\ pc' = "checks"
    /\ UNCHANGED <<req, reply, calls, out>>
    /\ Frame("eval")

\* lines 221-233
Blank ==
    /\ pc = "checks"
    /\ is_blank(ev.student_clean)
    /\ out' = Returned(TRUE, JAbsent, TRUE,
                       blank_result(req.student_year, ev.text_type, ev.max_total))
    /\ pc' = "done"
    /\ UNCHANGED <<req, ev, reply, calls>>
    /\ Frame("eval")

\* lines 235-237 returning a result of the base shape instead of the failure
MissingKeyDegraded ==
    /\ pc = "checks"
    /\ ~is_blank(ev.student_clean)
    /\ ~req.api_key
    /\ out' = Returned(TRUE, JAbsent, TRUE,
                       base_output_shape(req.student_year, ev.text_type, ev.max_total))
    /\ pc' = "done"
    /\ UNCHANGED <<req, ev, reply, calls>>
    /\ Frame("eval")

\* lines 235-237
MissingKey ==
    /\ pc = "checks"
    /\ ~is_blank(ev.student_clean)
    /\ ~req.api_key
    /\ out' = Returned(FALSE, JStr(<<"G","E","M","I","N","I","_","A","P","I","_","K","E","Y"," ","i","s"," ","n","o","t"," ","s","e","t"," ","i","n"," ","e","n","v","i","r","o","n","m","e","n","t",".">>), FALSE, out.result)
    /\ pc' = "done"
    /\ UNCHANGED <<req, ev, reply, calls>>
    /\ Frame("eval")

\* lines 239-241
CountWords ==
    /\ pc = "checks"
    /\ ~is_blank(ev.student_clean)
    /\ req.api_key
    /\ ev' = [ev EXCEPT !.wc = count_words(ev.student_clean),
                        !.word_count_feedback =
                            generate_word_count_feedback(req.student_year,
                                                         count_words(ev.student_clean))]
    /\ pc' = "counted"
    /\ UNCHANGED <<req, reply, calls, out>>
    /\ Frame("eval")

\* lines 243-266
TooShort ==
    /\ pc = "counted"
    /\ too_short(ev.wc)
    /\ out' = Returned(TRUE, JAbsent, TRUE,
                       too_short_result(req.student_year, ev.text_type, ev.max_total, ev.wc))
    /\ pc' = "done"
    /\ UNCHANGED <<req, ev, reply, calls>>
    /\ Frame("eval")

\* line 270 reached without the test of line 244
CallModelUnchecked ==
    /\ pc = "counted"
    /\ calls' = calls + 1
    /\ reply' \in ReplyPool
    /\ pc' = "replied"
    /\ UNCHANGED <<req, ev, out>>
    /\ Frame("eval")

\* line 270 up to the reply of model.generate_content (line 196)
CallModel ==
    /\ pc = "counted"
    /\ ~too_short(ev.wc)
    /\ calls' = calls + 1
    /\ reply' \in ReplyPool
    /\ pc' = "replied"
    /\ UNCHANGED <<req, ev, out>>
    /\ Frame("eval")

\* lines 197-198 and 270-341: the reply extracted and normalized; an exception
\* passes to the handler
Normalized ==
    /\ pc = "replied"
    /\ LET step(n) ==
               IF n.exc = "none"
               THEN /\ out' = Returned(TRUE, JAbsent, TRUE, n.result)
                    /\ pc' = "done"
                    /\ UNCHANGED ev
               ELSE /\ ev' = [ev EXCEPT !.exc = n.exc, !.msg = n.msg]
                    /\ pc' = "except"
                    /\ UNCHANGED out
       IN  step(normalize_reply(call_full_model(reply), req.student_year, ev.text_type,
                                ev.word_count_feedback, ev.max_total))
    /\ UNCHANGED <<req, reply, calls>>
    /\ Frame("eval")

\* lines 343-357
ModelFailed ==
    /\ pc = "except"
    /\ out' = IF caught(ev.exc)
              THEN Returned(TRUE, JAbsent, TRUE,
                            model_failed(req.student_year, ev.text_type,
                                         ev.word_count_feedback, ev.max_total, ev.msg))
              ELSE [out EXCEPT !.raised = TRUE]
    /\ pc' = "done"
    /\ UNCHANGED <<req, ev, reply, calls>>
    /\ Frame("eval")

NextEval ==
    \/ Start \/ Blank \/ MissingKey \/ CountWords \/ TooShort
    \/ CallModel \/ Normalized \/ ModelFailed

SpecEval == InitEval /\ [][NextEval]_vars

-----------------------------------------------------------------------------
(* Specification of main, the subject-feedback entry point *)

InitMain ==
    /\ pc = "stdin"
    /\ payload \in PayloadPool
    /\ MainAtRest
    /\ Idle("main")

\* lines 755-761
InvalidJson ==
    /\ pc = "stdin"
    /\ ~payload.json_ok
    /\ stdout' = [printed |-> TRUE, success |-> FALSE,
                  error |-> <<"I","n","v","a","l","i","d"," ","J","S","O","N"," ","i","n","p","u","t",":"," ">> \o payload.json_error]
    /\ pc' = "exit"
    /\ UNCHANGED <<payload, loc, model, gen>>
    /\ Frame("main")

\* lines 763-766
ReadDoc ==
    /\ pc = "stdin"
    /\ payload.json_ok
    /\ LET text(x) == IF x.k = "str" THEN x.s ELSE <<>>
           bind(quiz_name) ==
               loc' = [quiz_name |-> quiz_name,
                       subject |-> infer_subject_from_quiz_name(quiz_name)]
       IN  bind(IF text(payload.doc.quiz_name) # <<>>
                THEN text(payload.doc.quiz_name)
                ELSE text(payload.doc.quizName))
    /\ pc' = "subject"
    /\ UNCHANGED <<payload, model, gen, stdout>>
    /\ Frame("main")

\* lines 768-770
WritingSubject ==
    /\ pc = "subject"
    /\ loc.subject = <<"W","r","i","t","i","n","g">>
    /\ stdout' = [printed |-> TRUE, success |-> FALSE,
                  error |-> <<"W","r","i","t","i","n","g"," ","a","s","s","e","s","s","m","e","n","t","s"," ","a","r","e"," ","h","a","n","d","l","e","d"," ","s","e","p","a","r","a","t","e","l","y">>]
    /\ pc' = "exit"
    /\ UNCHANGED <<payload, loc, model, gen>>
    /\ Frame("main")

\* lines 772-774 and 779-780
NormalizeDoc ==
    /\ pc = "subject"
    /\ loc.subject # <<"W","r","i","t","i","n","g">>
    /\ loc' = [quiz_name |-> loc.quiz_name,
               subject |-> loc.subject,
               year_level |-> infer_year_level(payload.doc, loc.quiz_name),
               student_data |-> normalize_student_data(payload.doc).student_data,
               err |-> normalize_student_data(payload.doc).err,
               api_key |-> strip(payload.api_key),
               model_name |-> strip(IF payload.gemini_model = <<>>
                                    THEN <<"g","e","m","i","n","i","-","2",".","0","-","f","l","a","s","h">>
                                    ELSE payload.gemini_model)]
    /\ pc' = "normalized"
    /\ UNCHANGED <<payload, model, gen, stdout>>
    /\ Frame("main")

\* lines 775-777
MissingData ==
    /\ pc = "normalized"
    /\ loc.err # <<>>
    /\ stdout' = [printed |-> TRUE, success |-> FALSE, error |-> loc.err]
    /\ pc' = "exit"
    /\ UNCHANGED <<payload, loc, model, gen>>
    /\ Frame("main")

\* lines 782-784
NoApiKey ==
    /\ pc = "normalized"
    /\ loc.err = <<>>
    /\ loc.api_key = <<>>
    /\ stdout' = [printed |-> TRUE, success |-> FALSE,
                  error |-> <<"G","E","M","I","N","I","_","A","P","I","_","K","E","Y"," ","e","n","v","i","r","o","n","m","e","n","t"," ","v","a","r","i","a","b","l","e"," ","i","s"," ","r","e","q","u","i","r","e","d">>]
    /\ pc' = "exit"
    /\ UNCHANGED <<payload, loc, model, gen>>
    /\ Frame("main")

\* lines 786-788
NoAttempt ==
    /\ pc = "normalized"
    /\ loc.err = <<>>
    /\ loc.api_key # <<>>
    /\ is_no_attempt_session(payload.doc, loc.student_data.sub_subjects)
    /\ stdout' = placeholder_feedback(loc.subject, loc.quiz_name, loc.model_name,
                                      loc.year_level)
    /\ pc' = "exit"
    /\ UNCHANGED <<payload, loc, model, gen>>
    /\ Frame("main")

\* lines 790-794: init_gemini raises
InitFailed ==
    /\ pc = "normalized"
    /\ loc.err = <<>>
    /\ loc.api_key # <<>>
    /\ ~is_no_attempt_session(payload.doc, loc.student_data.sub_subjects)
    /\ payload.genai_error # <<>>
    /\ model' = [model EXCEPT !.init_calls = model.init_calls + 1]
    /\ stdout' = [printed |-> TRUE, success |-> FALSE,
                  error |-> <<"F","a","i","l","e","d"," ","t","o"," ","i","n","i","t","i","a","l","i","z","e"," ","G","e","m","i","n","i",":"," ">> \o payload.genai_error]
    /\ pc' = "exit"
    /\ UNCHANGED <<payload, loc, gen>>
    /\ Frame("main")

\* lines 790-809: the model initialised and generate_feedback entered with its
\* default max_retries (the analysis of line 796 reads only loc and is computed
\* where it is printed, in Generated)
InitGemini ==
    /\ pc = "normalized"
    /\ loc.err = <<>>
    /\ loc.api_key # <<>>
    /\ ~is_no_attempt_session(payload.doc, loc.student_data.sub_subjects)
    /\ payload.genai_error = <<>>
    /\ model' = [model EXCEPT !.init_calls = model.init_calls + 1]
    /\ gen' = [gen EXCEPT !.status = "running"]
    /\ pc' = "generate"
    /\ UNCHANGED <<payload, loc, stdout>>
    /\ Frame("main")

\* lines 501-511: one pass of the loop of generate_feedback
Attempt ==
    /\ pc = "generate"
    /\ gen.status = "running"
    /\ gen.attempt < gen.max_retries
    /\ \E r \in ResponsePool :
          /\ model' = [model EXCEPT !.replies = Append(model.replies, r)]
          /\ gen' = generate_feedback(gen, r)
    /\ UNCHANGED <<pc, payload, loc, stdout>>
    /\ Frame("main")

\* lines 501 and 511: range(max_retries) is empty, the function ends and
\* returns None
NoAttempts ==
    /\ pc = "generate"
    /\ gen.status = "running"
    /\ gen.attempt >= gen.max_retries
    /\ gen' = [gen EXCEPT !.status = "returned"]
    /\ UNCHANGED <<pc, payload, loc, model, stdout>>
    /\ Frame("main")

\* lines 796, 810 and 815-833
Generated ==
    /\ pc = "generate"
    /\ gen.status = "returned"
    /\ LET print(an) ==
               stdout' = [printed |-> TRUE,
                          success |-> TRUE,
                          performance_analysis |-> an,
                          ai_feedback |-> coerce_ai_feedback_schema(gen.value, an),
                          ai_feedback_meta |->
                              [placeholder_feedback(loc.subject, loc.quiz_name,
                                                    loc.model_name,
                                                    loc.year_level).ai_feedback_meta
                               EXCEPT !.status_message = <<"F","e","e","d","b","a","c","k"," ","g","e","n","e","r","a","t","e","d"," ","s","u","c","c","e","s","s","f","u","l","l","y">>]]
       IN  print(analyze_performance(loc.student_data, payload.doc, loc.year_level))
    /\ pc' = "exit"
    /\ UNCHANGED <<payload, loc, model, gen>>
    /\ Frame("main")

\* lines 811-813 printing the placeholder of a first session instead of the
\* failure
GenerationFailedWithPlaceholder ==
    /\ pc = "generate"
    /\ gen.status = "raised"
    /\ stdout' = placeholder_feedback(loc.subject, loc.quiz_name, loc.model_name,
                                      loc.year_level)
    /\ pc' = "exit"
    /\ UNCHANGED <<payload, loc, model, gen>>
    /\ Frame("main")

\* lines 811-813
GenerationFailed ==
    /\ pc = "generate"
    /\ gen.status = "raised"
    /\ stdout' = [printed |-> TRUE, success |-> FALSE,
                  error |-> <<"A","I"," ","g","e","n","e","r","a","t","i","o","n"," ","f","a","i","l","e","d",":"," ">> \o gen.error]
    /\ pc' = "exit"
    /\ UNCHANGED <<payload, loc, model, gen>>
    /\ Frame("main")

NextMain ==
    \/ InvalidJson \/ ReadDoc \/ WritingSubject \/ NormalizeDoc \/ MissingData
    \/ NoApiKey \/ NoAttempt \/ InitFailed \/ InitGemini
    \/ Attempt \/ Generated \/ GenerationFailed

SpecMain == InitMain /\ [][NextMain]_vars

-----------------------------------------------------------------------------
(* Specification of generate_feedback called with max_retries from 0 up *)

InitRetry ==
    /\ pc = "generate"
    /\ payload = [json_ok |-> FALSE]
    /\ loc = [quiz_name |-> <<>>, subject |-> <<>>]
    /\ model = [init_calls |-> 1, replies |-> <<>>]
    /\ gen \in { [max_retries |-> n, attempt |-> 0, last_error |-> <<>>,
                  status |-> "running",
                  value |-> [isdict |-> FALSE, overall_feedback |-> JNull, coach |-> JMissing, weaknesses |-> JMissing, growth_areas |-> JMissing],
                  error |-> <<>>] : n \in 0..MaxRetries }
    /\ stdout = [printed |-> FALSE]
    /\ Idle("main")

NextRetry == Attempt \/ NoAttempts

SpecRetry == InitRetry /\ [][NextRetry]_vars

-----------------------------------------------------------------------------
(* Specification of band_from_score as a pure function *)

InitBand ==
    /\ pc = "band"
    /\ marks \in [total : (-2)..MaxBandScore, max_score : (-1)..MaxBandScore]
    /\ standard = <<>>
    /\ Idle("band")

Band ==
    /\ pc = "band"
    /\ standard' = band_from_score(marks.total, marks.max_score)
    /\ pc' = "banded"
    /\ UNCHANGED marks
    /\ Frame("band")

SpecBand == InitBand /\ [][Band]_vars

-----------------------------------------------------------------------------
(* Specification of analyze_performance as a pure function *)

\* the topics are named by their place in the list; scored and total are drawn
\* from pairs that tie once reported (1/3 and 2/6), that round apart (1/3 and
\* 3/8), and that are skipped (a total of 0)
InitAnalyze ==
    /\ pc = "analyze"
    /\ sub_subjects \in
          { [i \in 1..Len(l) |->
                [name |-> <<"T">> \o str_int(i), scored |-> l[i][1], total |-> l[i][2]]] :
            l \in SeqsUpTo({<<0, 0>>, <<1, 3>>, <<2, 6>>, <<3, 8>>, <<4, 4>>, <<0, 5>>},
                           MaxPerfTopics) }
    /\ performance = <<>>
    /\ Idle("perf")

\* lines 260-319, for a document without a duration and a year level of 3
Analyze ==
    /\ pc = "analyze"
    /\ performance' =
           analyze_performance([total_score |-> [percentage |-> [some |-> TRUE, num |-> 50, den |-> 1],
                                                 grade |-> <<>>],
                                sub_subjects |-> sub_subjects],
                               [duration |-> JAbsent], SomeNum(3))
    /\ pc' = "analyzed"
    /\ UNCHANGED sub_subjects
    /\ Frame("perf")

SpecAnalyze == InitAnalyze /\ [][Analyze]_vars

-----------------------------------------------------------------------------
(* C1: coerce_ai_feedback_schema returns exactly 3 weaknesses for every     *)
(* model feedback object, and when weak_topics is non-empty the first       *)
(* weakness contains the name of weak_topics[0], ignoring case.             *)
C1_WeakestTopicFirst ==
    pc = "coerced" =>
        /\ Len(feedback.weaknesses) = 3
        /\ analysis.weak_topics # <<>> =>
              Contains(lower(feedback.weaknesses[1]), lower(analysis.weak_topics[1].name))

\* the model supplied three usable weaknesses, none naming the weakest topic,
\* and the synthesized "<name>: low accuracy" was put first
C1_Witness ==
    /\ pc = "coerced"
    /\ analysis.weak_topics # <<>>
    /\ Len(clean_strings(as_dict(ai).weaknesses)) = 3
    /\ ~Contains(lower(clean_strings(as_dict(ai).weaknesses)[1]),
                 lower(analysis.weak_topics[1].name))
    /\ feedback.weaknesses[1] =
          analysis.weak_topics[1].name
             \o <<":"," ","l","o","w"," ","a","c","c","u","r","a","c","y">>

-----------------------------------------------------------------------------
(* C2: normalize_criteria_list returns exactly one entry for each rubric    *)
(* name and no entry of any other name, so the returned list is as long as  *)
(* the rubric.                                                              *)
C2_ExactlyTheRubric ==
    (pc = "normalized" /\ ~criteria.raised) =>
        /\ Len(criteria.normalized) = Len(MAX_SCORES)
        /\ \A i \in 1..Len(criteria.normalized) : criteria.normalized[i].name \in {MAX_SCORES[j].name : j \in 1..Len(MAX_SCORES)}
        /\ \A r \in {MAX_SCORES[j].name : j \in 1..Len(MAX_SCORES)} :
              Cardinality({i \in 1..Len(criteria.normalized) : criteria.normalized[i].name = r}) = 1

RECURSIVE SumScores(_)
SumScores(list) ==
    IF list = <<>> THEN 0
    ELSE (IF list[1].max.some /\ list[1].score.some THEN list[1].score.v ELSE 0)
         + SumScores(Tail(list))

(* C3: the total normalize_criteria_list returns is the sum of the scores   *)
(* of the returned entries whose max is an integer, and each such score s   *)
(* satisfies 0 <= s <= max.                                                 *)
C3_TotalIsSumOfClampedScores ==
    (pc = "normalized" /\ ~criteria.raised) =>
        /\ criteria.total_raw = SumScores(criteria.normalized)
        /\ \A i \in 1..Len(criteria.normalized) :
              criteria.normalized[i].max.some =>
                 /\ criteria.normalized[i].score.some
                 /\ 0 <= criteria.normalized[i].score.v
                 /\ criteria.normalized[i].score.v <= criteria.normalized[i].max.v

(* C4: once evaluate_naplan_writing has invoked the model, a failure of     *)
(* the invocation, of the extraction or of the shape of the reply ends in   *)
(* the MODEL_FAILED result: success with valid_response false, the message  *)
(* 'AI evaluation failed.', total_score 0 and an error_detail; no exception *)
(* leaves the call.                                                         *)
C4_FailuresEndInModelFailed ==
    /\ ~out.raised
    /\ (/\ pc = "done"
        /\ calls = 1
        /\ \/ ev.exc # "none"
           \/ reply.raises
           \/ reply.text # "json"
           \/ reply.data.k # "dict"
           \/ reply.data.meta.k = "other"
           \/ reply.data.overall.k = "other")
       => /\ out.returned /\ out.success /\ out.has_result
          /\ ~out.result.meta.valid_response
          /\ out.result.meta.message = JStr(<<"A","I"," ","e","v","a","l","u","a","t","i","o","n"," ","f","a","i","l","e","d",".">>)
          /\ out.result.overall.total_score = 0
          /\ out.result.meta.error_detail.k = "str"

\* a non-string band made sanitize_text raise an AttributeError, and the
\* MODEL_FAILED result reports it
C4_Witness ==
    /\ pc = "done"
    /\ calls = 1
    /\ reply.data.overall.band = JNum(3)
    /\ ev.exc = "AttributeError"
    /\ out.returned /\ out.success
    /\ out.result.meta.message = JStr(<<"A","I"," ","e","v","a","l","u","a","t","i","o","n"," ","f","a","i","l","e","d",".">>)
    /\ out.result.meta.error_detail = JStr(<<"'","i","n","t","'"," ","o","b","j","e","c","t"," ","h","a","s"," ","n","o"," ","a","t","t","r","i","b","u","t","e"," ","'","s","t","r","i","p","'">>)

(* C5: in every result returned with success, overall.max_score is 50 when  *)
(* the resolved text_type is Narrative and 55 when it is Persuasive,        *)
(* whatever the model returned; a given text_type of the two is kept, and   *)
(* any other given text_type is treated as Narrative.                       *)
C5_MaxScoreFollowsTextType ==
    (pc = "done" /\ out.success) =>
        /\ ev.text_type \in {"Narrative", "Persuasive"}
        /\ out.result.meta.text_type = ev.text_type
        /\ req.text_type \in {"Narrative", "Persuasive"} => ev.text_type = req.text_type
        /\ req.text_type \notin {"None", "Narrative", "Persuasive"} => ev.text_type = "Narrative"
        /\ out.result.overall.max_score = IF ev.text_type = "Persuasive" THEN 55 ELSE 50

\* a NORMALIZE result for text_type "Poem" whose reply declared max_score 99
C5_Witness ==
    /\ pc = "done"
    /\ out.success
    /\ out.result.meta.valid_response
    /\ req.text_type = "Poem"
    /\ reply.data.overall.max_score = JNum(99)
    /\ out.result.overall.max_score = 50

(* C6 as stated: for every input whose cleaned writing is non-blank and has *)
(* fewer than 20 words, the call returns success with valid_response false, *)
(* word_count_feedback.status 'too_short_for_ai' and a message holding      *)
(* 'at least 20 words' and '(current: <word count>)'.                       *)
C6_ShortWritingIsTooShort ==
    (/\ pc = "done"
     /\ ~is_blank(cleaned_for_checks(req.student_writing))
     /\ count_words(cleaned_for_checks(req.student_writing)) < 20)
    => /\ out.success /\ out.has_result
       /\ ~out.result.meta.valid_response
       /\ out.result.meta.word_count_feedback.status = "too_short_for_ai"
       /\ Contains(out.result.meta.message.s, <<"a","t"," ","l","e","a","s","t"," ","2","0"," ","w","o","r","d","s">>)
       /\ Contains(out.result.meta.message.s,
                   <<"(","c","u","r","r","e","n","t",":"," ">>
                      \o str_int(count_words(cleaned_for_checks(req.student_writing)))
                      \o <<")">>)

(* C6 amended: the same, for the inputs evaluated with a model credential   *)
(* configured.                                                              *)
C6_ShortWritingWithKeyIsTooShort ==
    (/\ pc = "done"
     /\ req.api_key
     /\ ~is_blank(cleaned_for_checks(req.student_writing))
     /\ count_words(cleaned_for_checks(req.student_writing)) < 20)
    => /\ out.success /\ out.has_result
       /\ ~out.result.meta.valid_response
       /\ out.result.meta.word_count_feedback.status = "too_short_for_ai"
       /\ Contains(out.result.meta.message.s, <<"a","t"," ","l","e","a","s","t"," ","2","0"," ","w","o","r","d","s">>)
       /\ Contains(out.result.meta.message.s,
                   <<"(","c","u","r","r","e","n","t",":"," ">>
                      \o str_int(count_words(cleaned_for_checks(req.student_writing)))
                      \o <<")">>)

\* 19 words with a credential: the TOO_SHORT result, reporting (current: 19)
C6_Witness ==
    /\ pc = "done"
    /\ req.api_key
    /\ req.student_writing = Words(19)
    /\ out.success
    /\ out.result.meta.word_count_feedback.status = "too_short_for_ai"
    /\ Contains(out.result.meta.message.s, <<"(","c","u","r","r","e","n","t",":"," ","1","9",")">>)
    /\ calls = 0

(* C7: ensure_review_sections_shape is idempotent: a second application to  *)
(* the object it produced leaves review_sections as the first left it.      *)
C7_ShapeIsIdempotent ==
    pc = "reshaped" => review_sections = shaped_once


\* review_sections is the four sections of the fixed ids in their order, each
\* with a string title and a list of at most 8, 6, 8 and 4 items
FourSections(rs) ==
    LET ids  == << <<"s","e","n","t","e","n","c","e","_","i","m","p","r","o","v","e","m","e","n","t","s">>,
                   <<"i","d","e","a","s","_","d","e","v","e","l","o","p","m","e","n","t">>,
                   <<"n","e","x","t","_","s","t","e","p","s">>,
                   <<"m","i","n","i","_","r","e","w","r","i","t","e">> >>
        caps == <<8, 6, 8, 4>>
    IN  /\ rs.k = "list"
        /\ Len(rs.items) = 4
        /\ \A i \in 1..4 :
              /\ rs.items[i].isdict
              /\ rs.items[i].id = JStr(ids[i])
              /\ rs.items[i].title.k = "str"
              /\ rs.items[i].items.k = "list"
              /\ Len(rs.items[i].items.items) <= caps[i]

(* C8: in every result evaluate_naplan_writing returns with success, and    *)
(* after any call of ensure_review_sections_shape, review_sections has      *)
(* exactly four entries of ids sentence_improvements, ideas_development,    *)
(* next_steps, mini_rewrite in this order, each with a string title and an  *)
(* items list of at most 8, 6, 8 and 4 elements.                            *)
C8_FourReviewSections ==
    /\ (pc = "done" /\ out.success) => FourSections(out.result.review_sections)
    /\ pc \in {"shaped", "reshaped"} => FourSections(review_sections)

\* the reply held a mini_rewrite section of 9 items and the result holds 4
C8_Witness ==
    /\ pc = "done"
    /\ out.success
    /\ out.result.meta.valid_response
    /\ \E i \in 1..Len(arr(reply.data.review_sections)) :
          /\ arr(reply.data.review_sections)[i].id = JStr(<<"m","i","n","i","_","r","e","w","r","i","t","e">>)
          /\ Len(arr(arr(reply.data.review_sections)[i].items)) = 9
    /\ Len(out.result.review_sections.items[4].items.items) = 4

-----------------------------------------------------------------------------
(* C9: in main, whenever the topic breakdown of the input document has zero *)
(* total possible points summed over all topics, the fixed placeholder is   *)
(* printed (success true, empty strengths, weaknesses and growth_areas,     *)
(* status_message "Ready - awaiting first quiz attempt"), and the model is  *)
(* never initialised or invoked.  As stated this fails: a Writing quiz, a   *)
(* document with no overall percentage or no usable topic, and a missing    *)
(* GEMINI_API_KEY each end in {success: false, error} before the totals are *)
(* looked at.                                                               *)
C9_ZeroTotalPrintsPlaceholder ==
    LET totals(topics) == fsum(IF topics = <<>> THEN <<>>
                               ELSE [i \in 1..Len(topics) |-> topics[i].total])
        zero_total == payload.json_ok /\ totals(normalized_topics(payload.doc)) = 0
        placeholder == /\ stdout.success
                       /\ stdout.ai_feedback_meta.status_message
                              = <<"R","e","a","d","y"," ","-"," ","a","w","a","i","t","i","n","g"," ","f","i","r","s","t"," ","q","u","i","z"," ","a","t","t","e","m","p","t">>
                       /\ stdout.ai_feedback.strengths = <<>>
                       /\ stdout.ai_feedback.weaknesses = <<>>
                       /\ stdout.ai_feedback.growth_areas = <<>>
    IN  (pc = "exit" /\ zero_total)
            => (placeholder /\ model.init_calls = 0 /\ model.replies = <<>>)

(* C9, amended: with zero total possible points the model is never          *)
(* initialised or invoked, and the placeholder is printed exactly when the  *)
(* quiz is not a Writing quiz, the breakdown holds a usable topic, the      *)
(* document carries an overall percentage (score.percentage, or             *)
(* score.points and score.available with available > 0) and GEMINI_API_KEY  *)
(* is set; otherwise main prints {success: false, error}.                   *)
C9_ZeroTotalValidInputPrintsPlaceholder ==
    LET totals(topics) == fsum(IF topics = <<>> THEN <<>>
                               ELSE [i \in 1..Len(topics) |-> topics[i].total])
        zero_total == payload.json_ok /\ totals(normalized_topics(payload.doc)) = 0
        placeholder == /\ stdout.success
                       /\ stdout.ai_feedback_meta.status_message
                              = <<"R","e","a","d","y"," ","-"," ","a","w","a","i","t","i","n","g"," ","f","i","r","s","t"," ","q","u","i","z"," ","a","t","t","e","m","p","t">>
                       /\ stdout.ai_feedback.strengths = <<>>
                       /\ stdout.ai_feedback.weaknesses = <<>>
                       /\ stdout.ai_feedback.growth_areas = <<>>
        s == payload.doc.score
        has_percentage == /\ s.k = "dict"
                          /\ \/ to_number(s.percentage).some
                             \/ /\ to_number(s.points).some
                                /\ to_number(s.available).some
                                /\ to_number(s.available).v > 0
        valid == /\ loc.subject # <<"W","r","i","t","i","n","g">>
                 /\ normalized_topics(payload.doc) # <<>>
                 /\ has_percentage
                 /\ strip(payload.api_key) # <<>>
    IN  /\ zero_total => (model.init_calls = 0 /\ model.replies = <<>>)
        /\ (pc = "exit" /\ zero_total /\ valid) => placeholder
        /\ (pc = "exit" /\ zero_total /\ ~valid) => ~stdout.success

\* a document with a percentage, a key and one topic of total 0 has been answered
C9_Witness ==
    /\ pc = "exit"
    /\ payload.json_ok
    /\ strip(payload.api_key) # <<>>
    /\ payload.doc.score.percentage = JNum(0)
    /\ Len(normalized_topics(payload.doc)) = 1
    /\ normalized_topics(payload.doc)[1].total = 0
    /\ stdout.success
    /\ stdout.ai_feedback.weaknesses = <<>>
    /\ model.init_calls = 0

-----------------------------------------------------------------------------
-----------------------------------------------------------------------------
(* C11: coerce_ai_feedback_schema returns exactly 3 coach entries, each     *)
(* with a non-empty insight, reason and action.  The entries of the model   *)
(* that are objects holding all three fields are kept in their order (at    *)
(* most 3), every other entry is discarded, and each slot left open takes   *)
(* the entry synthesized from weak_topics at the index of that slot, or the *)
(* generic filler once weak_topics has no such index.  Only the last slot   *)
(* may differ: when no kept entry names the weakest topic it holds the      *)
(* entry that does.                                                         *)
C11_ThreeCompleteCoachEntries ==
    LET raw == arr(as_dict(ai).coach)
        complete(item) == /\ item.isdict
                          /\ ensure_string(item.insight) # <<>>
                          /\ ensure_string(item.reason) # <<>>
                          /\ ensure_string(item.action) # <<>>
        kept == Take(SelectSeq(raw, complete), 3)
        weak == analysis.weak_topics
        named(item) == \/ Contains(lower(ensure_string(item.insight)), lower(weak[1].name))
                       \/ Contains(lower(ensure_string(item.reason)), lower(weak[1].name))
        replaced == weak # <<>> /\ \A i \in 1..Len(kept) : ~named(kept[i])
        settled == IF replaced THEN 1..2 ELSE 1..3
        coach == feedback.coach
    IN  pc = "coerced" =>
            /\ Len(coach) = 3
            /\ \A i \in 1..3 : /\ coach[i].insight # <<>>
                               /\ coach[i].reason # <<>>
                               /\ coach[i].action # <<>>
            /\ \A i \in settled :
                  IF i <= Len(kept)
                  THEN /\ coach[i].insight = ensure_string(kept[i].insight)
                       /\ coach[i].reason = ensure_string(kept[i].reason)
                       /\ coach[i].action = ensure_string(kept[i].action)
                  ELSE IF i <= Len(weak)
                  THEN /\ coach[i].insight
                             = weak[i].name \o <<" ","n","e","e","d","s"," ","f","o","c","u","s","e","d"," ","p","r","a","c","t","i","c","e"," ","t","o"," ","i","m","p","r","o","v","e",".">>
                       /\ coach[i].reason
                             = <<"Y","o","u"," ","m","i","s","s","e","d"," ">> \o str_int(weak[i].missed) \o <<" ","o","u","t"," ","o","f"," ">>
                               \o str_int(weak[i].total) \o <<" ","q","u","e","s","t","i","o","n","s"," ","h","e","r","e",".">>
                       /\ coach[i].action
                             = <<"D","o"," ","1","0"," ">> \o weak[i].name \o <<" ","q","u","e","s","t","i","o","n","s"," ","i","n"," ","1","5"," ","m","i","n","u","t","e","s"," ","t","o","d","a","y",".">>
                  ELSE /\ coach[i].insight
                             = <<"S","m","a","l","l"," ","d","a","i","l","y"," ","p","r","a","c","t","i","c","e"," ","b","u","i","l","d","s"," ","s","t","r","o","n","g"," ","l","o","n","g","-","t","e","r","m"," ","s","k","i","l","l","s",".">>
                       /\ coach[i].reason
                             = <<"R","e","p","e","a","t","i","n","g"," ","k","e","y"," ","p","a","t","t","e","r","n","s"," ","h","e","l","p","s"," ","y","o","u"," ","r","e","m","e","m","b","e","r"," ","f","a","s","t","e","r",".">>
                       /\ coach[i].action
                             = <<"S","t","u","d","y"," ","f","o","r"," ","1","5"," ","m","i","n","u","t","e","s"," ","d","a","i","l","y"," ","a","n","d"," ","r","e","v","i","e","w"," ","m","i","s","t","a","k","e","s",".">>
            /\ replaced =>
                  coach[3].insight
                      = weak[1].name \o <<" ","i","s"," ","t","h","e"," ","b","i","g","g","e","s","t"," ","i","m","p","r","o","v","e","m","e","n","t"," ","o","p","p","o","r","t","u","n","i","t","y",".">>

\* the model sent four entries: one complete and naming the weakest topic,
\* one that is no object, one lacking its action and one whose reason is
\* blank; the first was kept, the second slot took weak_topics[1] and the
\* third the generic filler
C11_Witness ==
    /\ pc = "coerced"
    /\ ai.isdict /\ ai.coach.k = "list" /\ Len(ai.coach.items) = 4
    /\ ai.coach.items[1].isdict /\ ai.coach.items[1].action = JStr(<<"D","o"," ","f","i","v","e"," ","a"," ","d","a","y">>)
    /\ ~ai.coach.items[2].isdict
    /\ ai.coach.items[3].isdict /\ ai.coach.items[3].action = JNull
    /\ ai.coach.items[4].isdict /\ ai.coach.items[4].reason = JStr(<<" ">>)
    /\ Len(analysis.weak_topics) = 2
    /\ analysis.weak_topics[1].name = <<"F","r","a","c","t","i","o","n","s">>
    /\ feedback.coach[1].insight = <<"R","e","v","i","s","e"," ","F","R","A","C","T","I","O","N","S"," ","f","a","c","t","s">>
    /\ feedback.coach[2].insight
          = analysis.weak_topics[2].name \o <<" ","n","e","e","d","s"," ","f","o","c","u","s","e","d"," ","p","r","a","c","t","i","c","e"," ","t","o"," ","i","m","p","r","o","v","e",".">>
    /\ feedback.coach[3].insight = <<"S","m","a","l","l"," ","d","a","i","l","y"," ","p","r","a","c","t","i","c","e"," ","b","u","i","l","d","s"," ","s","t","r","o","n","g"," ","l","o","n","g","-","t","e","r","m"," ","s","k","i","l","l","s",".">>

-----------------------------------------------------------------------------
(* C12: coerce_ai_feedback_schema returns exactly 3 growth_areas for every  *)
(* model feedback object and every analysis, and when weak_topics is        *)
(* non-empty the first of them contains the name of weak_topics[0],         *)
(* ignoring case.                                                           *)
C12_WeakestTopicFirstGrowthArea ==
    pc = "coerced" =>
        /\ Len(feedback.growth_areas) = 3
        /\ analysis.weak_topics # <<>> =>
              Contains(lower(feedback.growth_areas[1]),
                       lower(analysis.weak_topics[1].name))

\* the model supplied three usable growth areas, the first not naming the
\* weakest topic: "<name>: practice daily" was put first and the third of
\* the model's dropped
C12_Witness ==
    /\ pc = "coerced"
    /\ analysis.weak_topics # <<>>
    /\ Len(clean_strings(as_dict(ai).growth_areas)) = 3
    /\ ~Contains(lower(clean_strings(as_dict(ai).growth_areas)[1]),
                 lower(analysis.weak_topics[1].name))
    /\ feedback.growth_areas
          = << analysis.weak_topics[1].name \o <<":"," ","p","r","a","c","t","i","c","e"," ","d","a","i","l","y">>,
               clean_strings(as_dict(ai).growth_areas)[1],
               clean_strings(as_dict(ai).growth_areas)[2] >>

-----------------------------------------------------------------------------
(* C13: band_from_score(total, max) is "Below Minimum Standard" when        *)
(* max <= 0 or 100 * total < 35 * max, "At Minimum Standard" when           *)
(* 35 * max <= 100 * total < 65 * max, and "Above Minimum Standard" when    *)
(* 100 * total >= 65 * max; so exactly 35% is At, exactly 65% is Above, and *)
(* for a fixed positive max the band never goes down as the total goes up.  *)
C13_BandThresholds ==
    LET t == marks.total
        mx == marks.max_score
        below == <<"B","e","l","o","w"," ","M","i","n","i","m","u","m"," ","S","t","a","n","d","a","r","d">>
        at == <<"A","t"," ","M","i","n","i","m","u","m"," ","S","t","a","n","d","a","r","d">>
        above == <<"A","b","o","v","e"," ","M","i","n","i","m","u","m"," ","S","t","a","n","d","a","r","d">>
        rank(b) == CASE b = below -> 1 [] b = at -> 2 [] b = above -> 3 [] OTHER -> 0
    IN  pc = "banded" =>
            /\ (mx <= 0 \/ 100 * t < 35 * mx) => standard = below
            /\ (mx > 0 /\ 35 * mx <= 100 * t /\ 100 * t < 65 * mx) => standard = at
            /\ (mx > 0 /\ 100 * t >= 65 * mx) => standard = above
            /\ mx > 0 =>
                  \A u \in t..MaxBandScore :
                      rank(band_from_score(u, mx)) >= rank(standard)

\* a total of exactly 35% of the maximum, banded At Minimum Standard
C13_Witness ==
    /\ pc = "banded"
    /\ marks = [total |-> 7, max_score |-> 20]
    /\ standard = <<"A","t"," ","M","i","n","i","m","u","m"," ","S","t","a","n","d","a","r","d">>

-----------------------------------------------------------------------------
(* C14: no two entries of the list normalize_criteria_list returns have     *)
(* names that are equal ignoring case, and when the input holds several     *)
(* entries of the same name ignoring case (the names taken as sanitized),   *)
(* the returned entry of that name is the one made from the first of them:  *)
(* it is the entry the first would give were it the only one supplied.      *)
C14_FirstOfEachNameIsKept ==
    LET rubric == build_schema_max(text_type)
        list == arr(crits)
        key(c) == lower(canonicalize_criterion_name(c.name, rubric))
        named == {k \in 1..Len(list) : /\ list[k].isdict
                                       /\ ~not_text(list[k].name)
                                       /\ key(list[k]) # <<>>}
        first(k) == \A j \in named : j < k => key(list[j]) # key(list[k])
        alone(k) == normalize_criteria_list(JList(<<list[k]>>), rubric, text_type).normalized[1]
        got == criteria.normalized
    IN  (pc = "normalized" /\ ~criteria.raised) =>
            /\ \A i, j \in 1..Len(got) :
                  i # j => lower(got[i].name) # lower(got[j].name)
            /\ \A k \in named :
                  first(k) => \E i \in 1..Len(got) : got[i] = alone(k)

\* "Creativity" with max 5 and score 7, then "creativity" with no max and
\* score 7: one entry of that name is returned, with the score 5 of the first
C14_Witness ==
    /\ pc = "normalized"
    /\ ~criteria.raised
    /\ crits.k = "list" /\ Len(crits.items) = 2
    /\ crits.items[1].name = JStr(<<"C","r","e","a","t","i","v","i","t","y">>) /\ crits.items[1].max = JNum(5)
    /\ crits.items[2].name = JStr(<<"c","r","e","a","t","i","v","i","t","y">>) /\ crits.items[2].max = JNull
    /\ criteria.normalized[1].name = <<"C","r","e","a","t","i","v","i","t","y">>
    /\ criteria.normalized[1].score = SomeNum(5)
    /\ criteria.normalized[1].max = SomeNum(5)
    /\ Len(criteria.normalized) = Len(MAX_SCORES) + 1

-----------------------------------------------------------------------------
(* C15: whenever the cleaned student writing is empty, for every prompt and *)
(* year level and with or without a model credential,                       *)
(* evaluate_naplan_writing returns success with a result whose              *)
(* valid_response is false, whose prompt_relevance is score 0, verdict      *)
(* off_topic, note 'No student writing provided.' and evidence '', whose    *)
(* summary is 'No writing was provided for assessment.', whose total_score  *)
(* is 0 and whose criteria list is empty; the model is not invoked.         *)
C15_BlankWritingIsBlankResult ==
    (pc = "done" /\ strip(clean_text(req.student_writing)) = <<>>)
    => /\ out.returned /\ ~out.raised
       /\ out.success /\ out.has_result
       /\ ~out.result.meta.valid_response
       /\ out.result.meta.prompt_relevance.score = JNum(0)
       /\ out.result.meta.prompt_relevance.verdict = JStr(<<"o","f","f","_","t","o","p","i","c">>)
       /\ out.result.meta.prompt_relevance.note = JStr(<<"N","o"," ","s","t","u","d","e","n","t"," ","w","r","i","t","i","n","g"," ","p","r","o","v","i","d","e","d",".">>)
       /\ out.result.meta.prompt_relevance.evidence = JStr(<<>>)
       /\ out.result.overall.summary = <<"N","o"," ","w","r","i","t","i","n","g"," ","w","a","s"," ","p","r","o","v","i","d","e","d"," ","f","o","r"," ","a","s","s","e","s","s","m","e","n","t",".">>
       /\ out.result.overall.total_score = 0
       /\ out.result.criteria = <<>>
       /\ calls = 0

\* writing made only of bullets, blank once cleaned, with no credential
\* configured: the BLANK result all the same
C15_Witness ==
    /\ pc = "done"
    /\ req.student_writing = <<"U+2022", " ", "U+2022">>
    /\ ~req.api_key
    /\ out.success
    /\ out.result.overall.summary = <<"N","o"," ","w","r","i","t","i","n","g"," ","w","a","s"," ","p","r","o","v","i","d","e","d"," ","f","o","r"," ","a","s","s","e","s","s","m","e","n","t",".">>

-----------------------------------------------------------------------------
(* C16: for non-blank student writing, evaluate_naplan_writing returns the  *)
(* top-level failure {success: false, error} with no result exactly when no *)
(* model credential is configured; every other end of the call (TOO_SHORT,  *)
(* NORMALIZE, MODEL_FAILED) returns success with a result.                  *)
C16_FailureOnlyWithoutCredential ==
    (pc = "done" /\ strip(clean_text(req.student_writing)) # <<>>)
    => /\ out.returned /\ ~out.raised
       /\ ~out.success <=> ~req.api_key
       /\ ~out.success =>
             /\ ~out.has_result
             /\ out.error = JStr(<<"G","E","M","I","N","I","_","A","P","I","_","K","E","Y"," ","i","s"," ","n","o","t"," ","s","e","t"," ","i","n"," ","e","n","v","i","r","o","n","m","e","n","t",".">>)
       /\ out.success =>
             /\ out.has_result
             /\ out.error = JAbsent
             /\ \/ out.result.meta.word_count_feedback.status = "too_short_for_ai"
                \/ out.result.meta.valid_response
                \/ out.result.meta.message = JStr(<<"A","I"," ","e","v","a","l","u","a","t","i","o","n"," ","f","a","i","l","e","d",".">>)

\* 100 words and no credential: the failure, the model never invoked
C16_Witness ==
    /\ pc = "done"
    /\ req.student_writing = Words(100)
    /\ ~req.api_key
    /\ ~out.success /\ ~out.has_result
    /\ out.error = JStr(<<"G","E","M","I","N","I","_","A","P","I","_","K","E","Y"," ","i","s"," ","n","o","t"," ","s","e","t"," ","i","n"," ","e","n","v","i","r","o","n","m","e","n","t",".">>)
    /\ calls = 0

-----------------------------------------------------------------------------
(* C17: in every result of evaluate_naplan_writing the capped text fields   *)
(* keep to their caps: overall.one_line_summary has at most 140 characters, *)
(* overall.summary at most 260 and meta.error_detail at most 260.  This     *)
(* fails: sanitize_text cuts a longer text to the cap and then appends      *)
(* "...", so a text with no space among its first characters comes back 3   *)
(* characters over the cap.                                                 *)
C17_CappedFieldsRespectCaps ==
    (pc = "done" /\ out.success /\ out.has_result)
    => /\ Len(out.result.overall.one_line_summary) <= 140
       /\ Len(out.result.overall.summary) <= 260
       /\ out.result.meta.error_detail.k = "str" =>
             Len(out.result.meta.error_detail.s) <= 260

-----------------------------------------------------------------------------
(* C18: in every result returned with success, meta.prompt_relevance is an  *)
(* object whose verdict is one of on_topic, partially_on_topic, off_topic   *)
(* and whose score is an integer in 0..100.  This fails: a prompt_relevance *)
(* of the reply that is an object holding a verdict key is kept as it is.   *)
C18_RelevanceVerdictAndScore ==
    (pc = "done" /\ out.success /\ out.has_result)
    => /\ out.result.meta.prompt_relevance.k = "dict"
       /\ out.result.meta.prompt_relevance.verdict
             \in {JStr(<<"o","n","_","t","o","p","i","c">>), JStr(<<"p","a","r","t","i","a","l","l","y","_","o","n","_","t","o","p","i","c">>), JStr(<<"o","f","f","_","t","o","p","i","c">>)}
       /\ out.result.meta.prompt_relevance.score.k = "num"
       /\ out.result.meta.prompt_relevance.score.n \in 0..100

-----------------------------------------------------------------------------
(* C19: in the MODEL_FAILED result, meta.word_count_feedback is the         *)
(* feedback computed from the word count before the model was called, and   *)
(* the verdict of meta.prompt_relevance is not 'off_topic'.  The second     *)
(* part fails: the result keeps the prompt_relevance of the base shape,     *)
(* score 0 and verdict off_topic.                                           *)
C19_ModelFailedRelevanceNotOffTopic ==
    (/\ pc = "done"
     /\ out.success /\ out.has_result
     /\ out.result.meta.message = JStr(<<"A","I"," ","e","v","a","l","u","a","t","i","o","n"," ","f","a","i","l","e","d",".">>))
    => /\ out.result.meta.word_count_feedback
             = generate_word_count_feedback(req.student_year,
                                            count_words(clean_text(req.student_writing)))
       /\ out.result.meta.prompt_relevance.verdict # JStr(<<"o","f","f","_","t","o","p","i","c">>)

-----------------------------------------------------------------------------
(* C20: every entry of the list normalize_criteria_list returns has a       *)
(* non-empty suggestion, and an entry whose supplied suggestion is missing, *)
(* empty or empty once sanitized has the default 'Add more detail and check *)
(* this area next time.' ('N/A (narrative)' for Persuasive Devices under    *)
(* Narrative).  This fails: the default is chosen by looking at the         *)
(* suggestion before it is sanitized, so a suggestion made only of          *)
(* characters that sanitize_text removes comes back empty.                  *)
C20_EverySuggestionNonEmpty ==
    LET got == criteria.normalized
        default(e) == IF text_type = "Narrative" /\ e.name = <<"P","e","r","s","u","a","s","i","v","e"," ","D","e","v","i","c","e","s">>
                      THEN <<"N","/","A"," ","(","n","a","r","r","a","t","i","v","e",")">>
                      ELSE <<"A","d","d"," ","m","o","r","e"," ","d","e","t","a","i","l"," ","a","n","d"," ","c","h","e","c","k"," ","t","h","i","s"," ","a","r","e","a"," ","n","e","x","t"," ","t","i","m","e",".">>
        list == arr(crits)
        \* the supplied entries an entry of the result may have come from
        sources(e) == {k \in 1..Len(list) :
                          /\ list[k].isdict
                          /\ list[k].name.k = "str"
                          /\ lower(clean_text(list[k].name.s)) = lower(e.name)}
        unusable(c) == \/ c.suggestion.k # "str"
                       \/ clean_text(c.suggestion.s) = <<>>
    IN  (pc = "normalized" /\ ~criteria.raised) =>
            \A i \in 1..Len(got) :
                /\ got[i].suggestion # <<>>
                /\ (\A k \in sources(got[i]) : unusable(list[k]))
                      => got[i].suggestion = default(got[i])
-----------------------------------------------------------------------------
(* C21: in main, when every attempt of the model call has failed (the       *)
(* retries are exhausted), what is printed is {success: false, error: 'AI   *)
(* generation failed: ...'} and nothing else: no performance_analysis, no   *)
(* ai_feedback, no placeholder or synthesized feedback.                     *)
C21_ExhaustedRetriesPrintFailureOnly ==
    LET failed(r) == r.kind \in {"raises", "empty", "no_object", "bad_object"}
        prefix == <<"A","I"," ","g","e","n","e","r","a","t","i","o","n"," ","f","a","i","l","e","d",":"," ">>
    IN  (/\ pc = "exit"
         /\ Len(model.replies) = DEFAULT_MAX_RETRIES
         /\ \A i \in 1..Len(model.replies) : failed(model.replies[i]))
        => /\ DOMAIN stdout = {"printed", "success", "error"}
           /\ stdout.printed
           /\ stdout.success = FALSE
           /\ Take(stdout.error, Len(prefix)) = prefix
           /\ Len(stdout.error) > Len(prefix)

\* the model raised on the first attempt and answered with text that is not
\* JSON on the second: main has printed the failure with the last error
C21_Witness ==
    /\ pc = "exit"
    /\ Len(model.replies) = 2
    /\ model.replies[1].kind = "raises"
    /\ model.replies[2].kind = "no_object"
    /\ DOMAIN stdout = {"printed", "success", "error"}
    /\ stdout.error = <<"A","I"," ","g","e","n","e","r","a","t","i","o","n"," ","f","a","i","l","e","d",":"," ","F","a","i","l","e","d"," ","a","f","t","e","r"," ","2"," ","a","t","t","e","m","p","t","s",":"," ","G","e","m","i","n","i"," ","d","i","d"," ","n","o","t"," ","r","e","t","u","r","n"," ","a"," ","J","S","O","N"," ","o","b","j","e","c","t","."," ","R","e","s","p","o","n","s","e"," ","w","a","s",":"," ","S","o","r","r","y",","," ","I"," ","c","a","n","n","o","t"," ","h","e","l","p",".">>
-----------------------------------------------------------------------------
(* C22: analyze_performance, for every list of topics, skips the topics     *)
(* whose total is 0 and returns top_topics with at most 3 entries in        *)
(* non-increasing reported percentage and weak_topics with at most 3        *)
(* entries in non-decreasing reported percentage; weak_topics[0] has the    *)
(* least reported percentage of the topics not skipped and top_topics[0]    *)
(* the greatest; with fewer than 3 topics not skipped both lists hold all   *)
(* of them.                                                                 *)
C22_TopAndWeakTopics ==
    LET kept == {i \in 1..Len(sub_subjects) : sub_subjects[i].total # 0}
        reported(i) == round1(sub_subjects[i].scored * 100, sub_subjects[i].total)
        from(list) == {i \in kept : \E p \in 1..Len(list) :
                                       /\ list[p].name = sub_subjects[i].name
                                       /\ list[p].percentage = reported(i)}
        well_formed(list) ==
            /\ Len(list) = Min({3, Cardinality(kept)})
            /\ Cardinality(from(list)) = Len(list)
            /\ Cardinality(kept) < 3 => from(list) = kept
        top == performance.top_topics
        weak == performance.weak_topics
    IN  pc = "analyzed"
        => /\ well_formed(top)
           /\ well_formed(weak)
           /\ \A p \in 1..(Len(top) - 1) : top[p].percentage >= top[p + 1].percentage
           /\ \A p \in 1..(Len(weak) - 1) : weak[p].percentage <= weak[p + 1].percentage
           /\ kept # {} =>
                 /\ \A i \in kept : top[1].percentage >= reported(i)
                 /\ \A i \in kept : weak[1].percentage <= reported(i)

\* five topics of which one is skipped: the strongest three and the weakest
\* three differ, and each list is in its own order
C22_Witness ==
    /\ pc = "analyzed"
    /\ Len(sub_subjects) = 5
    /\ [i \in 1..5 |-> <<sub_subjects[i].scored, sub_subjects[i].total>>]
          = << <<1, 3>>, <<4, 4>>, <<0, 0>>, <<0, 5>>, <<3, 8>> >>
    /\ [p \in 1..3 |-> performance.top_topics[p].name] = <<<<"T","2">>, <<"T","5">>, <<"T","1">>>>
    /\ [p \in 1..3 |-> performance.top_topics[p].percentage] = <<1000, 375, 333>>
    /\ [p \in 1..3 |-> performance.weak_topics[p].name] = <<<<"T","4">>, <<"T","1">>, <<"T","5">>>>
-----------------------------------------------------------------------------
(* C23: on the NORMALIZE path of evaluate_naplan_writing, for every value   *)
(* the model declares as overall.band: one of the three valid band strings  *)
(* is the band of the result; for every other value (missing, empty, an     *)
(* invalid string, a value that is no string) the result is still a         *)
(* NORMALIZE result, and its band is band_from_score(total_score,           *)
(* max_score). The replies are those that normalize with the band left out. *)
C23_DeclaredBandOrRecomputed ==
    LET without_band(r) == [r EXCEPT !.data.overall.band = JAbsent]
        normalizes(r) ==
            /\ ~r.raises /\ r.text = "json"
            /\ r.data.k = "dict" /\ r.data.overall.k = "dict"
            /\ normalize_reply(call_full_model(without_band(r)), req.student_year,
                               ev.text_type, ev.word_count_feedback, ev.max_total).exc = "none"
        declared == reply.data.overall.band
        valid == declared.k = "str" /\ \E i \in 1..Len(BANDS) : BANDS[i] = declared.s
    IN  (pc = "done" /\ calls = 1 /\ normalizes(reply))
        => /\ out.success /\ out.has_result
           /\ out.result.meta.valid_response
           /\ out.result.overall.band =
                 IF valid THEN declared.s
                 ELSE band_from_score(out.result.overall.total_score,
                                      out.result.overall.max_score)
-----------------------------------------------------------------------------
(* C24: in coerce_ai_feedback_schema, whenever pace is 'slow' and both      *)
(* time_taken_minutes and seconds_per_question are known, one of the three  *)
(* returned weaknesses holds the timing weakness 'Too slow: <spq>s per      *)
(* question', for every weaknesses list of the model, the lists to which    *)
(* the weakest topic had to be prepended included.                          *)
C24_SlowPaceIsAWeakness ==
    LET tw == <<"t","o","o"," ","s","l","o","w",":"," ">> \o lower(str_float1(analysis.seconds_per_question.v))
              \o <<"s"," ","p","e","r"," ","q","u","e","s","t","i","o","n">>
    IN  (/\ pc = "coerced"
         /\ analysis.pace = "slow"
         /\ analysis.time_taken_minutes.some
         /\ analysis.seconds_per_question.some)
        => /\ Len(feedback.weaknesses) = 3
           /\ \E i \in 1..3 : Contains(lower(feedback.weaknesses[i]), tw)
-----------------------------------------------------------------------------
(* C25: in coerce_ai_feedback_schema, for every feedback object of the      *)
(* model and every analysis with non-empty weak_topics, at least one of the *)
(* 3 returned coach entries contains the name of weak_topics[0], ignoring   *)
(* case, in its insight or reason; when no retained entry of the model      *)
(* mentions it, the last coach entry is the one replaced, and the entries   *)
(* at positions 0 and 1 are left as they were.                              *)
C25_WeakestTopicInCoach ==
    LET weakest == analysis.weak_topics[1]
        text(x) == ensure_string(x)
        complete(item) == item.isdict /\ text(item.insight) # <<>>
                          /\ text(item.reason) # <<>> /\ text(item.action) # <<>>
        retained == Take(SelectSeq(arr(as_dict(ai).coach), complete), 3)
        mentions(insight, reason) == \/ Contains(lower(insight), lower(weakest.name))
                                     \/ Contains(lower(reason), lower(weakest.name))
        unmentioned == \A i \in 1..Len(retained) :
                           ~mentions(text(retained[i].insight), text(retained[i].reason))
        coach == feedback.coach
        \* the entry a slot held before the replacement
        was(i, topics) ==
            IF i <= Len(retained)
            THEN [insight |-> text(retained[i].insight), reason |-> text(retained[i].reason),
                  action |-> text(retained[i].action)]
            ELSE IF i <= Len(topics)
            THEN [insight |-> topics[i].name \o <<" ","n","e","e","d","s"," ","f","o","c","u","s","e","d"," ","p","r","a","c","t","i","c","e"," ","t","o"," ","i","m","p","r","o","v","e",".">>,
                  reason |-> <<"Y","o","u"," ","m","i","s","s","e","d"," ">> \o str_int(topics[i].missed) \o <<" ","o","u","t"," ","o","f"," ">>
                             \o str_int(topics[i].total) \o <<" ","q","u","e","s","t","i","o","n","s"," ","h","e","r","e",".">>,
                  action |-> <<"D","o"," ","1","0"," ">> \o topics[i].name \o <<" ","q","u","e","s","t","i","o","n","s"," ","i","n"," ","1","5"," ","m","i","n","u","t","e","s"," ","t","o","d","a","y",".">>]
            ELSE [insight |-> <<"S","m","a","l","l"," ","d","a","i","l","y"," ","p","r","a","c","t","i","c","e"," ","b","u","i","l","d","s"," ","s","t","r","o","n","g"," ","l","o","n","g","-","t","e","r","m"," ","s","k","i","l","l","s",".">>,
                  reason |-> <<"R","e","p","e","a","t","i","n","g"," ","k","e","y"," ","p","a","t","t","e","r","n","s"," ","h","e","l","p","s"," ","y","o","u"," ","r","e","m","e","m","b","e","r"," ","f","a","s","t","e","r",".">>,
                  action |-> <<"S","t","u","d","y"," ","f","o","r"," ","1","5"," ","m","i","n","u","t","e","s"," ","d","a","i","l","y"," ","a","n","d"," ","r","e","v","i","e","w"," ","m","i","s","t","a","k","e","s",".">>]
    IN  (pc = "coerced" /\ analysis.weak_topics # <<>>)
        => /\ Len(coach) = 3
           /\ \E i \in 1..3 : mentions(coach[i].insight, coach[i].reason)
           /\ unmentioned =>
                 /\ coach[3] =
                       [insight |-> weakest.name \o <<" ","i","s"," ","t","h","e"," ","b","i","g","g","e","s","t"," ","i","m","p","r","o","v","e","m","e","n","t"," ","o","p","p","o","r","t","u","n","i","t","y",".">>,
                        reason |-> <<"Y","o","u"," ","m","i","s","s","e","d"," ">> \o str_int(weakest.missed) \o <<" ","o","u","t"," ","o","f"," ">>
                                   \o str_int(weakest.total) \o <<" ","q","u","e","s","t","i","o","n","s"," ","i","n"," ">>
                                   \o weakest.name \o <<".">>,
                        action |-> <<"P","r","a","c","t","i","c","e"," ","1","2"," ">> \o weakest.name
                                   \o <<" ","q","u","e","s","t","i","o","n","s"," ","t","o","m","o","r","r","o","w"," ","(","2","0"," ","m","i","n","u","t","e","s",")",".">>]
                 /\ coach[1] = was(1, analysis.weak_topics)
                 /\ coach[2] = was(2, analysis.weak_topics)

\* the model sent three complete entries, none of them naming Algebra, the
\* weakest topic: the third gave way to the entry that names it, the first
\* two stayed
C25_Witness ==
    /\ pc = "coerced"
    /\ analysis.weak_topics # <<>>
    /\ analysis.weak_topics[1].name = <<"A","l","g","e","b","r","a">>
    /\ ai.isdict /\ ai.coach.k = "list" /\ Len(ai.coach.items) = 3
    /\ ai.coach.items[1].insight = JStr(<<"R","e","v","i","s","e"," ","F","R","A","C","T","I","O","N","S"," ","f","a","c","t","s">>)
    /\ ai.coach.items[2].insight = JStr(<<"R","e","a","d"," ","e","a","c","h"," ","q","u","e","s","t","i","o","n"," ","t","w","i","c","e">>)
    /\ ai.coach.items[3].insight = JStr(<<"R","e","v","i","s","e"," ","F","R","A","C","T","I","O","N","S"," ","f","a","c","t","s">>)
    /\ feedback.coach[1].insight = <<"R","e","v","i","s","e"," ","F","R","A","C","T","I","O","N","S"," ","f","a","c","t","s">>
    /\ feedback.coach[2].insight = <<"R","e","a","d"," ","e","a","c","h"," ","q","u","e","s","t","i","o","n"," ","t","w","i","c","e">>
    /\ feedback.coach[3].insight = <<"A","l","g","e","b","r","a"," ","i","s"," ","t","h","e"," ","b","i","g","g","e","s","t"," ","i","m","p","r","o","v","e","m","e","n","t"," ","o","p","p","o","r","t","u","n","i","t","y",".">>
-----------------------------------------------------------------------------
(* C26: in coerce_ai_feedback_schema the returned overall_feedback is never *)
(* empty, and whenever time_taken_minutes is known it contains 'minute' or  *)
(* 'time', ignoring case: the clause 'Time taken: <minutes> minutes.' is    *)
(* appended exactly when the timing is known and neither word appears       *)
(* already, and the text is otherwise that of the model, or the default,    *)
(* unchanged.                                                               *)
C26_OverallFeedbackMentionsTiming ==
    LET supplied == ensure_string(as_dict(ai).overall_feedback)
        text == IF supplied # <<>> THEN supplied
                ELSE <<"Y","o","u"," ","m","a","d","e"," ","g","o","o","d"," ","p","r","o","g","r","e","s","s"," ","a","n","d"," ","c","a","n"," ","i","m","p","r","o","v","e"," ","w","i","t","h"," ","p","r","a","c","t","i","c","e","."," ","K","e","e","p"," ","g","o","i","n","g","!">>
        known == analysis.time_taken_minutes.some
        timed(t) == Contains(lower(t), <<"m","i","n","u","t","e">>) \/ Contains(lower(t), <<"t","i","m","e">>)
        clause == <<" ","T","i","m","e"," ","t","a","k","e","n",":"," ">> \o str_float1(analysis.time_taken_minutes.v)
                  \o <<" ","m","i","n","u","t","e","s",".">>
    IN  pc = "coerced"
        => /\ feedback.overall_feedback # <<>>
           /\ known => timed(feedback.overall_feedback)
           /\ feedback.overall_feedback =
                 IF known /\ ~timed(text) THEN text \o clause ELSE text

\* the model's text names neither word and the quiz took 25 minutes: the
\* clause was appended to the text
C26_Witness ==
    /\ pc = "coerced"
    /\ ai.isdict
    /\ ai.overall_feedback = JStr(<<" ","G","o","o","d"," ","w","o","r","k"," ","o","n"," ","f","r","a","c","t","i","o","n","s","."," ">>)
    /\ analysis.time_taken_minutes = SomeNum(250)
    /\ feedback.overall_feedback = <<"G","o","o","d"," ","w","o","r","k"," ","o","n"," ","f","r","a","c","t","i","o","n","s","."," ","T","i","m","e"," ","t","a","k","e","n",":"," ","2","5",".","0"," ","m","i","n","u","t","e","s",".">>
-----------------------------------------------------------------------------
(* C27: in every result evaluate_naplan_writing returns with success true,  *)
(* 0 <= overall.total_score <= overall.max_score, for every criteria list   *)
(* the model can return, entries named outside the rubric that carry their  *)
(* own max and score included.                                              *)
C27_TotalWithinMaxScore ==
    (pc = "done" /\ out.returned /\ out.success /\ out.has_result)
    => /\ 0 <= out.result.overall.total_score
       /\ out.result.overall.total_score <= out.result.overall.max_score
-----------------------------------------------------------------------------
(* C28: in evaluate_naplan_writing the generative model is invoked at most  *)
(* once per call, and never when the cleaned writing is blank, when no      *)
(* credential is configured, or when the word count is below 20: every      *)
(* invocation comes after all three checks have passed.                     *)
C28_ModelInvokedOnceAfterChecks ==
    [][LET cleaned == strip(clean_text(req.student_writing))
           words == count_words(cleaned)
           invoked == calls' # calls
       IN  /\ calls <= 1 /\ calls' <= 1
           /\ invoked =>
                 /\ calls = 0 /\ calls' = 1
                 \* the three checks, on the request itself
                 /\ cleaned # <<>>
                 /\ req.api_key
                 /\ words >= 20
                 \* and as the call made them: lines 214, 222, 236, 240 and 244
                 /\ pc = "counted"
                 /\ ev.student_clean = cleaned
                 /\ ev.wc = words
           \* a call that ended at one of the checks invoked nothing
           /\ (pc' = "done" /\ (cleaned = <<>> \/ ~req.api_key \/ words < 20))
                 => calls' = 0
      ]_vars

\* 20 words and a credential: the model was invoked once and the call ended
\* with the NORMALIZE result
C28_Witness ==
    /\ pc = "done"
    /\ calls = 1
    /\ req.student_writing = Words(20)
    /\ req.api_key
    /\ out.success /\ out.result.meta.valid_response

=============================================================================
